---- MODULE Spec2Model ----
(***************************************************************************)
(* Verification model of the european-choice build pipeline (build.rs):    *)
(* the scraper, the concurrent executor, the catalog indexer, the icon     *)
(* harvester and the cache-gated build stages, over a bounded web site and *)
(* a persistent output directory.                                          *)
(*                                                                         *)
(* Conventions.  A string the code inspects character-wise is modelled by  *)
(* the parts the code separates: an href is the sequence of its            *)
(* '/'-separated segments, a heading the sequence of its words, an icon    *)
(* URL the sequence of its '.'-separated parts.  An Option is a         *)
(* sequence of length at most one.  A Result is a record with field ok.    *)
(* Positions stored in the catalog are 0-based as in the code; At(s, i)    *)
(* reads the Rust index i of the sequence s.                               *)
(***************************************************************************)
EXTENDS Integers, Sequences, FiniteSets, TLC

(* ------------------------------ bounds -------------------------------- *)

\* Longest categories index page (number of category anchors on it).
MaxLinks == 2
\* Number of members of the Country enumeration the model keeps (a prefix).
MaxCountries == 2
\* Number of build invocations followed over one output directory.
MaxBuilds == 3
\* Largest batch handed to the executor in the executor specification.
MaxItems == 3
\* Anchors, and other links, of a product page given to extract_websites alone.
MaxAnchors == 2
\* Keys given to OrderedMap::insert and OrderedMap::remove: 0..MaxKey.
MaxKey == 2
\* Words of a search query.
MaxQueryWords == 2
\* The largest value of the scrolled window's adjustment, in group heights.
MaxPos == 2
\* Timeout sources attached to the main context at one time.
MaxSources == 3
\* Nested emissions of active-group-changed that are followed.
MaxDepth == 4

(* --------------------------- generic helpers --------------------------- *)

None == <<>>
Some(x) == <<x>>
IsSome(o) == Len(o) = 1

At(s, i) == s[i + 1]
Last(s) == s[Len(s)]
Range(s) == {s[i] : i \in DOMAIN s}

Ok(v) == [ok |-> TRUE, value |-> v]
Err(e) == [ok |-> FALSE, error |-> e]

\* Every iteration order a HashMap / HashSet over the keys S can produce.
Orderings(S) ==
    {s \in [1..Cardinality(S) -> S] : \A i, j \in 1..Cardinality(S) : i # j => s[i] # s[j]}

SeqsUpTo(S, n) == UNION {[1..k -> S] : k \in 0..n}

RECURSIVE Flatten(_)
Flatten(ss) == IF ss = <<>> THEN <<>> ELSE Head(ss) \o Flatten(Tail(ss))

(* --------------------------- string conversions ------------------------ *)

\* str::to_lowercase on the strings of the model.
to_lowercase(s) ==
    CASE s = "European" -> "european"
      [] s = "Cloud" -> "cloud"
      [] s = "Search" -> "search"
      [] s = "Acme" -> "acme"
      [] s = "Bolt" -> "bolt"
      [] s = "SVG" -> "svg"
      [] s = "Svg" -> "svg"
      [] s = "PNG" -> "png"
      [] s = "Austria" -> "austria"
      [] s = "AUSTRIA" -> "austria"
      [] s = "Belgium" -> "belgium"
      [] s = "Bulgaria" -> "bulgaria"
      [] s = "BE" -> "be"
      [] s = "Mail" -> "mail"
      [] s = "Mailbox" -> "mailbox"
      [] s = "JPG" -> "jpg"
      [] OTHER -> s

\* str::trim on the strings of the model: leading and trailing white space off.
trim(s) ==
    CASE s = " Austria " -> "Austria"
      [] s = "Belgium " -> "Belgium"
      [] s = " " -> ""
      [] OTHER -> s

\* char::to_uppercase applied to the first character of a word.
to_uppercase_first(s) ==
    CASE s = "european" -> "European"
      [] s = "cloud" -> "Cloud"
      [] s = "search" -> "Search"
      [] s = "acme" -> "Acme"
      [] s = "bolt" -> "Bolt"
      [] OTHER -> s

\* heck::AsTitleCase: every word capitalised, the rest of it lowered.
AsTitleCase(words) == [i \in DOMAIN words |-> to_uppercase_first(to_lowercase(words[i]))]

\* heck::AsSnakeCase: every word lowered (the words are joined by '_').
AsSnakeCase(words) == [i \in DOMAIN words |-> to_lowercase(words[i])]

(* ------------------------------ Country -------------------------------- *)

\* define_countries!: (display name, slug, code) in declaration order.
CountryTable ==
    << [display_name |-> "Austria", slug |-> "austria", code |-> "at"],
       [display_name |-> "Belgium", slug |-> "belgium", code |-> "be"],
       [display_name |-> "Bulgaria", slug |-> "bulgaria", code |-> "bg"],
       [display_name |-> "Croatia", slug |-> "croatia", code |-> "hr"],
       [display_name |-> "Cyprus", slug |-> "cyprus", code |-> "cy"] >>

\* Country::COUNT of the modelled prefix of the enumeration.
COUNT == MaxCountries

\* Country::all(): the ordinals (country as usize).
all_countries == [i \in 1..COUNT |-> i - 1]

\* Country::parse: exact match of the display name or of the code.
parse(string) ==
    LET hits == {c \in 0..(COUNT - 1) :
                    \/ At(CountryTable, c).display_name = string
                    \/ At(CountryTable, c).code = string}
    IN IF hits = {} THEN None ELSE Some(CHOOSE c \in hits : TRUE)

(* ------------------------------ the web site --------------------------- *)

\* Anchors the categories index page may carry (a[href*='/category/']).
CategoryHrefs ==
    { <<"", "category", "cloud">>,
      <<"", "category", "search">>,
      <<"", "de", "category", "cloud">> }

Slugs == {"cloud", "search"}

ProductUrls == { <<"", "product", "acme">>, <<"", "product", "bolt">> }

\* The page behind a category anchor: its h1 words, its categoryLogo src and the
\* text of its first .prose paragraph as the sequence of its '.'-separated
\* parts ("a. b." is <<"a", " b", "">>, a text without a period is one part).
CategoryPage(href) ==
    CASE href = <<"", "category", "cloud">> ->
            [heading |-> <<"European", "cloud">>, icon_src |-> <<"cdn/categoryLogo/1", "svg">>,
             prose |-> <<"Hosting and storage from Europe", " GDPR compliant", "">>]
      [] href = <<"", "category", "search">> ->
            [heading |-> <<"european", "Search">>, icon_src |-> <<"cdn/categoryLogo/2", "PNG">>,
             prose |-> <<"Search engines that respect privacy">>]
      [] OTHER ->
            [heading |-> <<"Cloud">>, icon_src |-> <<"cdn/categoryLogo/1", "svg">>,
             prose |-> <<"Hosting aus Europa", "">>]

\* Anchors of a product page in document order: the href, and where the first
\* <span> inside the anchor sits ("none", "child" of the anchor, or "nested"
\* in an element of the anchor).
Anchors ==
    { [href |-> "https://acme.example", span |-> "child"],
      [href |-> "https://acme.example/shop", span |-> "nested"],
      [href |-> "https://github.com/acme", span |-> "child"],
      [href |-> "https://european-alternatives.eu/alternative-to/x", span |-> "child"],
      [href |-> "/imprint", span |-> "child"],
      [href |-> "https://bolt.example", span |-> "none"] }

\* Elements matched by `article .items-center a`: the href attribute and the
\* text of the first <title> inside, where present.
OtherLinks ==
    { [href |-> Some("https://mastodon.example/@acme"), title |-> Some("Mastodon")],
      [href |-> Some("https://github.com/acme"), title |-> None],
      [href |-> None, title |-> Some("Matrix")],
      [href |-> Some("https://acme.example"), title |-> Some("Website")] }

\* Product detail pages: h1 words, the text next to the flag, the productLogo src.
ProductPages ==
    { [heading |-> <<"acme">>, label |-> Some("Austria"), logo |-> Some(<<"cdn/productLogo/a", "svg">>),
       anchors |-> << [href |-> "https://github.com/acme", span |-> "child"],
                      [href |-> "https://acme.example", span |-> "child"] >>,
       other |-> << [href |-> Some("https://mastodon.example/@acme"), title |-> Some("Mastodon")] >>],
      [heading |-> <<"Acme">>, label |-> Some("be"), logo |-> Some(<<"cdn/productLogo/s", "PNG">>),
       anchors |-> <<>>, other |-> <<>>],
      [heading |-> <<"bolt">>, label |-> Some("austria"), logo |-> Some(<<"cdn/productLogo/s", "PNG">>),
       anchors |-> << [href |-> "/imprint", span |-> "child"] >>, other |-> <<>>],
      [heading |-> <<"bolt", "search">>, label |-> None, logo |-> Some(<<"cdn/productLogo/b", "SVG">>),
       anchors |-> << [href |-> "https://bolt.example", span |-> "none"] >>,
       other |-> << [href |-> Some("https://github.com/acme"), title |-> None] >>],
      [heading |-> <<"bolt">>, label |-> Some("Belgium"), logo |-> None,
       anchors |-> <<>>, other |-> <<>>] }

\* Every site of the bounded input space.
Sites ==
    [index : SeqsUpTo(CategoryHrefs, MaxLinks),
     listing : [Slugs -> SUBSET ProductUrls],
     product : [ProductUrls -> ProductPages]]


(* ------------------------------ variables ------------------------------ *)

VARIABLES
    site,               \* the scraped web site (what every fetch of a build returns)
    single_thread,      \* SINGLE_THREAD_BUILD = "true"
    executor,           \* one ConcurrentExecutor call: its threads and its join loop
    catalog_file,       \* OUTPUT_DIR/catalog.rs
    icons_file,         \* OUTPUT_DIR/icons.xml
    icon_files,         \* OUTPUT_DIR/icons/*: the set of file names present
    templates_file,     \* OUTPUT_DIR/templates.xml
    compiled_file,      \* OUTPUT_DIR/compiled.gresources
    templates_newer,    \* mtime(templates.xml) > mtime(data/ui.xml)
    style_newer,        \* mtime(data/style.css) > mtime(compiled.gresources)
    pc,                 \* position of the running build in execute_complete_build
    builds,             \* build invocations started so far
    categories,         \* Vec<Category> of the running build
    products,           \* Vec<Product> of the running build
    icons,              \* Vec<Icon> handed from the catalog stage to the icon stage
    regenerated,        \* (icons_regenerated, templates_regenerated, style_updated)
    requests,           \* HTTP requests issued by the running build
    emitted,            \* the running build printed the cargo:rustc-env metadata
    failures,           \* history: the steps of the running build that failed
    cache_hits,         \* history: the cached files the running build relied on
    written,            \* history: the files the running build wrote
    tainted,            \* history: files last written by a build that aborted
    catalogs_written,   \* history: every catalog a build wrote, with that build's mode
    harvest,            \* the icon-harvesting batch of the running build, task by task
    input,              \* the argument of the one function call under study
    output,             \* what that call returned (None before it returns)
    ordered_map,        \* an OrderedMap<T>: its map and its indices
    search_row,         \* the SidebarSearchRow, its entry and the list that holds it
    search,             \* the Search controller: query, country, and what the rows show
    scroll              \* GroupScroll, the overview's active group, the category list

envVars == <<site, single_thread, executor>>
fsVars == <<catalog_file, icons_file, icon_files, templates_file, compiled_file,
            templates_newer, style_newer>>
buildVars == <<pc, builds, categories, products, icons, regenerated, requests, emitted>>
histVars == <<failures, cache_hits, written, tainted>>
guiVars == <<ordered_map, search_row, search, scroll>>
auxVars == <<catalogs_written, harvest, input, output, guiVars>>
vars == <<envVars, fsVars, buildVars, histVars, auxVars>>

\* No executor call in progress.
ExecutorIdle ==
    [call |-> "none", phase |-> "returned", n |-> 0, task |-> <<>>, next |-> 1,
     joined |-> {}, results |-> <<>>, ret |-> "none", error_of |-> 0]

\* No icon-harvesting batch in progress.
HarvestIdle == [phase |-> "idle", items |-> <<>>, task |-> <<>>, next |-> 1, ret |-> "none"]

\* No function call under study.
NoCall == [fn |-> "none"]

\* OrderedMap::default(): HashMap::new() and Vec::new().
OrderedMap_new == [map |-> <<>>, indices |-> <<>>]

\* SidebarSearchRow as constructed: state Idle (#[default]), an empty entry, no
\* row of the primary list selected, no search-changed emission outstanding;
\* calls lists the set_state calls of the event handled last.
SearchRowConstructed ==
    [state |-> "Idle", text |-> "", selected |-> "none", active_css |-> FALSE,
     search_changed_pending |-> FALSE, calls |-> <<>>]

\* The catalog compiled into the application: categories, products with the
\* positions of their categories and their country, and the buckets.
GuiCatalog ==
    [categories |-> << [name |-> <<"Cloud">>, description |-> <<"hosting">>],
                       [name |-> <<"Search">>, description |-> <<"engines">>],
                       [name |-> <<"Mail">>, description |-> <<"e-mail">>] >>,
     products |-> << [name |-> <<"Mailbox">>, description |-> <<"secure", "mail">>,
                      country |-> Some(0), categories |-> <<0>>],
                     [name |-> <<"Bolt">>, description |-> <<"fast", "search">>,
                      country |-> Some(1), categories |-> <<0, 1>>],
                     [name |-> <<"Acme">>, description |-> <<"öl", "eu">>,
                      country |-> None, categories |-> <<1>>] >>,
     category_products |-> << <<0, 1>>, <<1, 2>>, <<>> >>]

\* Positions of the categories (groups, sidebar rows) and of the products.
GroupIndices == 0..(Len(GuiCatalog.categories) - 1)
ProductIndices == 0..(Len(GuiCatalog.products) - 1)
RowsOf(g) == Range(At(GuiCatalog.category_products, g))

\* Populator::populate: every row, group and sidebar row is visible, no query,
\* the default item of the country dropdown selected.
SearchPopulated ==
    [query |-> <<>>, country |-> None, had_content |-> FALSE,
     row_visible |-> [g \in GroupIndices |-> [r \in RowsOf(g) |-> TRUE]],
     group_visible |-> [g \in GroupIndices |-> TRUE],
     sidebar_visible |-> [g \in GroupIndices |-> TRUE],
     has_any_matches |-> TRUE]

\* GroupScroll::new and the population of the page: no timeout stored, no
\* source attached, the first group active and the first category row selected.
ScrollConstructed ==
    [value |-> 0, previous_scroll_position |-> 0,
     debounce_timeout |-> None, animation_timeout |-> None,
     sources |-> << >>, removed_finished |-> FALSE, handler_runs |-> 0,
     active_index |-> Some(0), selected_row |-> Some(0),
     calls |-> <<>>, diverged |-> FALSE]

\* The widgets and controllers of the application are not built.
NoGui ==
    /\ ordered_map = OrderedMap_new
    /\ search_row = SearchRowConstructed
    /\ search = SearchPopulated
    /\ scroll = ScrollConstructed

Absent == [kind |-> "absent"]
\* What a failed std::fs::write can leave behind: a created, truncated file.
Partial == [kind |-> "partial"]
Exists(file) == file.kind # "absent"

(* --------------------------- URL and documents ------------------------- *)

\* href.split('/').next_back()
extract_slug_from_href(href) == Some(Last(href))

\* First-seen-order de-duplication of the href values of the matched anchors.
RECURSIVE collect_unique_href_values_from(_, _, _)
collect_unique_href_values_from(anchors, seen, results) ==
    IF anchors = <<>> THEN results
    ELSE IF Head(anchors) \in seen
         THEN collect_unique_href_values_from(Tail(anchors), seen, results)
         ELSE collect_unique_href_values_from(
                  Tail(anchors), seen \cup {Head(anchors)}, Append(results, Head(anchors)))

collect_unique_href_values(anchors) == collect_unique_href_values_from(anchors, {}, <<>>)

\* HashMap<href, slug> of the categories index page.
discover_category_urls(index) ==
    LET hrefs == collect_unique_href_values(index)
    IN [h \in {x \in Range(hrefs) : IsSome(extract_slug_from_href(x))} |->
            extract_slug_from_href(h)[1]]

(* -------------------------------- Icon --------------------------------- *)

\* A variant that compares the extension as the url spells it.
from_url_case_sensitive(url, name) ==
    LET icon_name == AsSnakeCase(name)
        extension == Last(url)
        final_extension == IF extension = "svg" THEN "svg" ELSE "png"
    IN [url |-> url, filename |-> <<icon_name, final_extension>>,
        name |-> icon_name, extension |-> extension]

\* Icon::from_url: snake-case name, lowered extension, ".svg" or ".png" file name.
from_url(url, name) ==
    LET icon_name == AsSnakeCase(name)
        extension == to_lowercase(Last(url))
        final_extension == IF extension = "svg" THEN "svg" ELSE "png"
    IN [url |-> url, filename |-> <<icon_name, final_extension>>,
        name |-> icon_name, extension |-> extension]

is_svg(icon) == icon.extension = "svg"

is_png(icon) == icon.extension = "png"

\* IconHarvester::download_icon_as_svg once the bytes are fetched: the file it
\* writes and the routine that writes it.
download_icon_as_svg(icon) ==
    [path |-> icon.filename,
     routine |-> IF is_svg(icon) THEN "normalize_svg_bytes"
                 ELSE IF is_png(icon) THEN "write_png_bytes"
                 ELSE "convert_image_to_png"]

(* --------------------------- category extractor ------------------------ *)

remove_european_prefix(name) ==
    IF Len(name) >= 2 /\ to_lowercase(name[1]) = "european"
    THEN Some(<<to_uppercase_first(name[2])>> \o SubSeq(name, 3, Len(name)))
    ELSE None

\* What minreq::get(url).send() hands back: a transport failure or a response
\* with a status code.
Responses ==
    {[sent |-> FALSE, status_code |-> 0]} \cup
    {[sent |-> TRUE, status_code |-> c] : c \in {200, 201, 204, 206, 299, 301, 404, 500}}

\* HttpClient::send_request on what send() handed back: map_err on the
\* transport failure, then the response only when status_code == 200.
send_request(response) ==
    IF ~response.sent THEN Err("NetworkError")
    ELSE IF response.status_code = 200 THEN Ok(response)
    ELSE Err("NetworkError")

\* description.split('.').next().map_or_else(|| description.clone(), |s| format!("{s}."))
\* on the '.'-separated parts of the description; split yields at least one part.
category_summary(description) ==
    LET next == IF description = <<>> THEN None ELSE Some(Head(description))
    IN IF IsSome(next) THEN <<next[1], "">> ELSE description

\* One worker of extract_all_categories; fetched = the GET of the page succeeded.
extract_single_category(url, slug, fetched) ==
    IF ~fetched THEN Err("NetworkError")
    ELSE LET page == CategoryPage(url)
             stripped == remove_european_prefix(page.heading)
             name == IF IsSome(stripped) THEN stripped[1] ELSE page.heading
             description == page.prose
             summary == category_summary(description)
             icon == from_url(page.icon_src, name)
         IN Ok([result |-> [slug |-> slug, name |-> name, description |-> description,
                            summary |-> summary, icon |-> icon.name],
                icons |-> <<icon>>])

(* ---------------------------- concurrent executor ---------------------- *)

Min(S) == CHOOSE x \in S : \A y \in S : x <= y

\* A variant that drops the failed items instead of returning their error.
execute_and_collect_swallowing(outcomes) ==
    LET kept == SelectSeq(outcomes, LAMBDA o : o.ok)
    IN Ok([results |-> [i \in DOMAIN kept |-> kept[i].value.result],
           icons |-> Flatten([i \in DOMAIN kept |-> kept[i].value.icons])])

\* What execute_and_collect returns for the workers' outcomes in item order:
\* the error of the first failing item, else all results and icons in item order.
execute_and_collect(outcomes) ==
    LET failed == {i \in DOMAIN outcomes : ~outcomes[i].ok}
    IN IF failed # {}
       THEN outcomes[Min(failed)]
       ELSE Ok([results |-> [i \in DOMAIN outcomes |-> outcomes[i].value.result],
                icons |-> Flatten([i \in DOMAIN outcomes |-> outcomes[i].value.icons])])

\* How many workers ran: all of them on threads, up to the first failure serially.
workers_run(serial, outcomes) ==
    LET failed == {i \in DOMAIN outcomes : ~outcomes[i].ok}
    IN IF serial /\ failed # {} THEN Min(failed) ELSE Len(outcomes)

(* ---------------------------- product extractor ------------------------ *)

\* A variant that files the product under the last segment of its own link.
collect_product_urls_for_category_by_link(product_urls, category, links) ==
    [u \in DOMAIN product_urls \cup links |->
        (IF u \in DOMAIN product_urls THEN product_urls[u] ELSE {})
            \cup (IF u \in links THEN {Last(u)} ELSE {})]

\* One iteration of discover_product_urls: entry(url).or_default().insert(slug).
collect_product_urls_for_category(product_urls, category, links) ==
    [u \in DOMAIN product_urls \cup links |->
        (IF u \in DOMAIN product_urls THEN product_urls[u] ELSE {})
            \cup (IF u \in links THEN {category.slug} ELSE {})]

RECURSIVE discover_product_urls_from(_, _, _)
discover_product_urls_from(product_urls, cats, listing) ==
    IF cats = <<>> THEN product_urls
    ELSE discover_product_urls_from(
             collect_product_urls_for_category(
                 product_urls, Head(cats), listing[Head(cats).slug]),
             Tail(cats), listing)

\* HashMap<product url, HashSet<category slug>>
discover_product_urls(cats, listing) == discover_product_urls_from(<<>>, cats, listing)

\* .next().and_then(|span| Country::parse(span.text()...trim()))
extract_product_country(page) ==
    IF IsSome(page.label) THEN parse(trim(page.label[1])) ELSE None

\* a[href^="http"]
starts_with_http(href) ==
    href \in {"https://acme.example", "https://acme.example/shop", "https://github.com/acme",
              "https://european-alternatives.eu/alternative-to/x", "https://bolt.example",
              "https://mastodon.example/@acme"}

\* [href*="european-alternatives.eu"]
is_directory_href(href) == href = "https://european-alternatives.eu/alternative-to/x"

\* The :where(...) list of social hosts: github.com, mastodon, ...
is_social_href(href) == href \in {"https://github.com/acme", "https://mastodon.example/@acme"}

\* DOCUMENT_SELECTORS.product_website: the spans inside the anchors that are
\* external, not of the directory site and not social, in document order (one
\* span per anchor is enough for .next()).
select_product_website(anchors) ==
    SelectSeq(anchors, LAMBDA a : /\ starts_with_http(a.href)
                                  /\ ~is_directory_href(a.href)
                                  /\ ~is_social_href(a.href)
                                  /\ a.span # "none")

\* .next().and_then(span.parent()).and_then(as_element).and_then(attr("href")):
\* the parent of the first matched span is asked for an href; it has one when
\* the span is a child of the anchor.
extract_product_website(page) ==
    LET matched == select_product_website(page.anchors)
    IN IF matched = <<>> THEN None
       ELSE IF Head(matched).span = "child" THEN Some(Head(matched).href)
       ELSE None

DirectorySiteName == "European Alternatives"

\* (label, url) pairs: the base entries, then every other link with an href and
\* a title, in document order.
extract_websites(page, source) ==
    LET company_website_option == extract_product_website(page)
        base == IF IsSome(company_website_option)
                THEN << <<"Company", company_website_option[1]>>, <<DirectorySiteName, source>> >>
                ELSE << <<DirectorySiteName, source>> >>
        titled == SelectSeq(page.other, LAMBDA e : IsSome(e.href) /\ IsSome(e.title))
    IN base \o [i \in DOMAIN titled |-> <<titled[i].title[1], titled[i].href[1]>>]

\* One worker of extract_all_products; slugs = the owning set in iteration order.
extract_single_product_with_icons(url, slugs, page, fetched) ==
    IF ~fetched THEN Err("NetworkError")
    ELSE IF ~IsSome(page.logo) THEN Err("ParseError")
    ELSE LET name == AsTitleCase(page.heading)
             icon == from_url(page.logo[1], name)
         IN Ok([result |-> [categories |-> slugs, logo |-> icon.name, name |-> name,
                            country |-> extract_product_country(page),
                            websites |-> extract_websites(page, url)],
                icons |-> <<icon>>])

\* CatalogExtractor::extract_country_flags_icons
extract_country_flags_icons ==
    [i \in 1..COUNT |->
        from_url(<<"cdn/countryFlags/4x3", At(CountryTable, all_countries[i]).code, "svg">>,
                 <<At(CountryTable, all_countries[i]).slug>>)]


(* ----------------------------- catalog indexer ------------------------- *)

\* HashMap::insert: a later value for a key replaces the earlier one.
MapInsert(map, key, value) ==
    [k \in DOMAIN map \cup {key} |-> IF k = key THEN value ELSE map[k]]

RECURSIVE collect_index(_, _, _)
\* .enumerate().map(|(index, x)| (key(x), index)).collect::<HashMap<_, _>>()
collect_index(keys, index, map) ==
    IF index = Len(keys) THEN map
    ELSE collect_index(keys, index + 1, MapInsert(map, At(keys, index), index))

build_category_slug_index(cats) ==
    collect_index([i \in DOMAIN cats |-> cats[i].slug], 0, <<>>)

build_product_name_index(prods) ==
    collect_index([i \in DOMAIN prods |-> prods[i].name], 0, <<>>)

\* products_by_x[index].push(product_index)
Push(buckets, index, product_index) ==
    [buckets EXCEPT ![index + 1] = Append(@, product_index)]

RECURSIVE assign_product_to_categories_swapped(_, _, _, _)
\* A variant that pushes the category ordinal where the product position belongs.
assign_product_to_categories_swapped(slugs, product_index, category_slug_to_index, buckets) ==
    IF slugs = <<>> THEN buckets
    ELSE assign_product_to_categories_swapped(
             Tail(slugs), product_index, category_slug_to_index,
             IF Head(slugs) \in DOMAIN category_slug_to_index
             THEN Push(buckets, category_slug_to_index[Head(slugs)],
                       category_slug_to_index[Head(slugs)])
             ELSE buckets)

RECURSIVE assign_product_to_categories(_, _, _, _)
assign_product_to_categories(slugs, product_index, category_slug_to_index, buckets) ==
    IF slugs = <<>> THEN buckets
    ELSE assign_product_to_categories(
             Tail(slugs), product_index, category_slug_to_index,
             IF Head(slugs) \in DOMAIN category_slug_to_index
             THEN Push(buckets, category_slug_to_index[Head(slugs)], product_index)
             ELSE buckets)

RECURSIVE build_products_by_category_from(_, _, _, _)
build_products_by_category_from(prods, product_index, category_slug_to_index, buckets) ==
    IF product_index = Len(prods) THEN buckets
    ELSE build_products_by_category_from(
             prods, product_index + 1, category_slug_to_index,
             assign_product_to_categories(
                 At(prods, product_index).categories, product_index,
                 category_slug_to_index, buckets))

build_products_by_category_index(prods, category_slug_to_index, categories_count) ==
    build_products_by_category_from(
        prods, 0, category_slug_to_index, [i \in 1..categories_count |-> <<>>])

\* A variant that files a product without a country under ordinal 0.
assign_product_to_country_or_default(product, product_index, buckets) ==
    Push(buckets, IF IsSome(product.country) THEN product.country[1] ELSE 0, product_index)

assign_product_to_country(product, product_index, buckets) ==
    IF IsSome(product.country)
    THEN Push(buckets, product.country[1], product_index)
    ELSE buckets

RECURSIVE build_products_by_country_from(_, _, _)
build_products_by_country_from(prods, product_index, buckets) ==
    IF product_index = Len(prods) THEN buckets
    ELSE build_products_by_country_from(
             prods, product_index + 1,
             assign_product_to_country(At(prods, product_index), product_index, buckets))

build_products_by_country_index(prods) ==
    build_products_by_country_from(prods, 0, [i \in 1..COUNT |-> <<>>])

\* CatalogIndexMaps::build_from_catalog
build_from_catalog(cats, prods) ==
    LET category_slug_to_index == build_category_slug_index(cats)
    IN [category_slug_to_index |-> category_slug_to_index,
        product_name_to_index |-> build_product_name_index(prods),
        products_by_category_index |->
            build_products_by_category_index(prods, category_slug_to_index, Len(cats)),
        products_by_country_index |-> build_products_by_country_index(prods)]

(* ----------------------------- code generation ------------------------- *)

\* category_slug_to_index.get(slug).unwrap() for every slug of the product.
format_category_indices_list(product_categories, category_slug_to_index) ==
    IF \E i \in DOMAIN product_categories :
           product_categories[i] \notin DOMAIN category_slug_to_index
    THEN Err("panic")
    ELSE Ok([i \in DOMAIN product_categories |->
                category_slug_to_index[product_categories[i]]])

\* The crate::models::Catalog literal: products carry category ordinals.
build_catalog_struct_code(cats, prods, index_maps) ==
    LET lists == [i \in DOMAIN prods |->
                     format_category_indices_list(
                         prods[i].categories, index_maps.category_slug_to_index)]
    IN IF \E i \in DOMAIN lists : ~lists[i].ok
       THEN Err("panic")
       ELSE Ok([kind |-> "catalog",
                categories |-> cats,
                products |-> [i \in DOMAIN prods |->
                                 [prods[i] EXCEPT !.categories = lists[i].value]],
                categories_map |-> index_maps.category_slug_to_index,
                products_map |-> index_maps.product_name_to_index,
                category_products |-> index_maps.products_by_category_index,
                country_products |-> index_maps.products_by_country_index])

\* What write_catalog_code_to_file hands to std::fs::write.
catalog_code(cats, prods) ==
    build_catalog_struct_code(cats, prods, build_from_catalog(cats, prods))


(* ------------------------------- the build ----------------------------- *)

CatalogRs == "catalog.rs"
IconsXml == "icons.xml"
IconsDir == "icons"
TemplatesXml == "templates.xml"
CompiledGresources == "compiled.gresources"

\* A `?` that returns the error from execute_complete_build: the build is over,
\* and what it wrote stays in the output directory.
Abort ==
    /\ pc' = "failed"
    /\ emitted' = emitted

\* Files rewritten by the running build.
Wrote(files) ==
    /\ written' = written \cup files
    /\ tainted' = tainted \ files

\* BuildPipeline::new()?.execute_complete_build() is started on the output
\* directory as the previous invocation left it.
StartBuild ==
    /\ pc \in {"idle", "done", "failed"}
    /\ builds < MaxBuilds
    /\ builds' = builds + 1
    /\ pc' = "catalog"
    /\ single_thread' \in BOOLEAN
    /\ categories' = <<>>
    /\ products' = <<>>
    /\ icons' = <<>>
    /\ regenerated' = [icons |-> FALSE, templates |-> FALSE, style |-> FALSE]
    /\ requests' = 0
    /\ emitted' = FALSE
    /\ failures' = {}
    /\ cache_hits' = {}
    /\ written' = {}
    /\ tainted' = IF pc = "failed" THEN tainted \cup written ELSE tainted
    /\ harvest' = HarvestIdle
    /\ UNCHANGED <<site, executor, fsVars, catalogs_written, input, output, guiVars>>

should_use_cached_catalog == Exists(catalog_file)

\* A variant of the cached branch that still hands the flag icons on.
cached_catalog_icons_with_flags == extract_country_flags_icons

\* process_catalog_data, cached branch: Ok((vec![], false)).
cached_catalog_icons == <<>>

ProcessCatalogCached ==
    /\ pc = "catalog"
    /\ should_use_cached_catalog
    /\ icons' = cached_catalog_icons
    /\ cache_hits' = cache_hits \cup {CatalogRs}
    /\ pc' = "icons"
    /\ UNCHANGED <<envVars, auxVars, fsVars, builds, categories, products, regenerated, requests,
                   emitted, failures, written, tainted>>

\* CategoryExtractor::extract_all_categories: the index page, then one worker
\* per discovered href, in the iteration order of the HashMap.
ExtractAllCategories ==
    /\ pc = "catalog"
    /\ ~should_use_cached_catalog
    /\ \E index_fetched \in BOOLEAN :
         IF ~index_fetched
         THEN /\ failures' = failures \cup {"categories index"}
              /\ requests' = requests + 1
              /\ Abort
              /\ UNCHANGED <<categories, icons>>
         ELSE LET category_urls == discover_category_urls(site.index) IN
              \E order \in Orderings(DOMAIN category_urls), bad \in SUBSET DOMAIN category_urls :
                LET outcomes == [i \in DOMAIN order |->
                                    extract_single_category(
                                        order[i], category_urls[order[i]], order[i] \notin bad)]
                    collected == execute_and_collect(outcomes)
                    ran == workers_run(single_thread, outcomes)
                IN /\ requests' = requests + 1 + ran
                   /\ failures' = failures \cup
                          (IF \E i \in 1..ran : ~outcomes[i].ok THEN {"category"} ELSE {})
                   /\ IF collected.ok
                      THEN /\ categories' = collected.value.results
                           /\ icons' = collected.value.icons
                           /\ pc' = "products"
                           /\ emitted' = emitted
                      ELSE /\ Abort
                           /\ UNCHANGED <<categories, icons>>
    /\ UNCHANGED <<envVars, auxVars, fsVars, builds, products, regenerated, cache_hits, written, tainted>>

\* The iteration orders of the HashSet<slug> of every product url.
SlugOrders(product_urls) ==
    {f \in [DOMAIN product_urls -> UNION {Orderings(product_urls[u]) : u \in DOMAIN product_urls}] :
        \A u \in DOMAIN product_urls : f[u] \in Orderings(product_urls[u])}

\* ProductExtractor::extract_all_products followed by extract_country_flags_icons
\* (the rest of extract_complete_catalog): one listing fetch per category in
\* sequence order, then one worker per product url in HashMap order.
ExtractAllProducts ==
    /\ pc = "products"
    /\ \E listing_bad \in SUBSET (1..Len(categories)) :
         IF listing_bad # {}
         THEN /\ failures' = failures \cup {"category listing"}
              /\ requests' = requests + Min(listing_bad)
              /\ Abort
              /\ UNCHANGED <<products, icons>>
         ELSE LET product_urls == discover_product_urls(categories, site.listing) IN
              \E order \in Orderings(DOMAIN product_urls),
                 slug_order \in SlugOrders(product_urls),
                 bad \in SUBSET DOMAIN product_urls :
                LET outcomes == [i \in DOMAIN order |->
                                    extract_single_product_with_icons(
                                        order[i], slug_order[order[i]],
                                        site.product[order[i]], order[i] \notin bad)]
                    collected == execute_and_collect(outcomes)
                    ran == workers_run(single_thread, outcomes)
                IN /\ requests' = requests + Len(categories) + ran
                   /\ failures' = failures \cup
                          (IF \E i \in 1..ran : ~outcomes[i].ok THEN {"product"} ELSE {})
                   /\ IF collected.ok
                      THEN /\ products' = collected.value.results
                           /\ icons' = icons \o collected.value.icons
                                          \o extract_country_flags_icons
                           /\ pc' = "write_catalog"
                           /\ emitted' = emitted
                      ELSE /\ Abort
                           /\ UNCHANGED <<products, icons>>
    /\ UNCHANGED <<envVars, auxVars, fsVars, builds, categories, regenerated, cache_hits, written, tainted>>

\* The outcomes of std::fs::write(path, content) on a file holding `old`.
FsWriteOutcomes(old, content) ==
    { [ok |-> TRUE, file |-> content],
      [ok |-> FALSE, file |-> old],         \* the file could not be created
      [ok |-> FALSE, file |-> Partial] }    \* created, the write failed

\* CatalogProcessor::write_catalog_code_to_file, the tail of regenerate_catalog_data.
WriteCatalog ==
    /\ pc = "write_catalog"
    /\ LET code == catalog_code(categories, products) IN
       IF ~code.ok
       THEN /\ failures' = failures \cup {"catalog code"}
            /\ Abort
            /\ UNCHANGED <<catalog_file, written, tainted, catalogs_written>>
       ELSE \E w \in FsWriteOutcomes(catalog_file, code.value) :
              /\ catalog_file' = w.file
              /\ IF w.ok \/ w.file # catalog_file THEN Wrote({CatalogRs})
                                                    ELSE UNCHANGED <<written, tainted>>
              /\ IF w.ok
                 THEN /\ pc' = "icons"
                      /\ emitted' = emitted
                      /\ failures' = failures
                      /\ catalogs_written' = catalogs_written \cup
                             {[serial |-> single_thread, catalog |-> code.value]}
                 ELSE /\ failures' = failures \cup {"catalog write"}
                      /\ catalogs_written' = catalogs_written
                      /\ Abort
    /\ UNCHANGED <<envVars, harvest, input, output, guiVars, icons_file, icon_files, templates_file, compiled_file,
                   templates_newer, style_newer, builds, categories, products, icons,
                   regenerated, requests, cache_hits>>

(* ------------------------------ icon stage ----------------------------- *)

RECURSIVE register_icons_every_reference(_, _)
\* A variant that keeps one registry entry per reference instead of one per url.
register_icons_every_reference(registry, list) ==
    IF list = <<>> THEN registry
    ELSE register_icons_every_reference(
             MapInsert(registry, <<Head(list).url, Len(list)>>, Head(list)), Tail(list))

RECURSIVE register_icons_from(_, _)
\* for icon in icons { icon_registry.insert(&icon.url, icon) }
register_icons_from(registry, list) ==
    IF list = <<>> THEN registry
    ELSE register_icons_from(MapInsert(registry, Head(list).url, Head(list)), Tail(list))

register_icons(list) == register_icons_from(<<>>, list)

\* A variant that looks at the manifest only, not at the icons handed over.
should_process_icons_if_no_manifest(list) == ~Exists(icons_file)

should_process_icons(list) == list # <<>> \/ ~Exists(icons_file)

\* IconHarvester::build_resources_xml: one <file> line per registry value.  The
\* lines follow the HashMap's iteration order; the model keeps how often each
\* file name is listed.
build_resources_xml(registry) ==
    LET names == {registry[u].filename : u \in DOMAIN registry}
    IN [kind |-> "manifest",
        files |-> [f \in names |-> Cardinality({u \in DOMAIN registry : registry[u].filename = f})]]

\* process_icons, cached branch: read_to_string(icons.xml), (xml, false).
LoadCachedIconsXml ==
    /\ pc = "icons"
    /\ ~should_process_icons(icons)
    /\ \E read \in BOOLEAN :
         IF read
         THEN /\ pc' = "templates"
              /\ cache_hits' = cache_hits \cup {IconsXml}
              /\ failures' = failures
              /\ emitted' = emitted
         ELSE /\ failures' = failures \cup {"icons.xml read"}
              /\ cache_hits' = cache_hits
              /\ Abort
    /\ UNCHANGED <<envVars, auxVars, fsVars, builds, categories, products, icons, regenerated,
                   requests, written, tainted>>

\* generate_icons_xml up to download_all_to_directory: one task per registered
\* url, each fetching and then writing OUTPUT_DIR/icons/<filename>.  A task
\* whose fetch or conversion fails writes nothing.  When some task fails the
\* build returns the error; the tasks that had written their file by then are
\* those before the failure (serial) or any of the others (threads).
DownloadIcons ==
    /\ pc = "icons"
    /\ should_process_icons(icons)
    /\ LET registry == register_icons(icons) IN
       \E bad \in SUBSET DOMAIN registry :
         IF bad = {}
         THEN /\ icon_files' = icon_files \cup {registry[u].filename : u \in DOMAIN registry}
              /\ requests' = requests + Cardinality(DOMAIN registry)
              /\ failures' = failures
              /\ IF DOMAIN registry # {} THEN Wrote({IconsDir})
                                         ELSE UNCHANGED <<written, tainted>>
              /\ pc' = "icons_xml"
              /\ emitted' = emitted
         ELSE \E done \in SUBSET (DOMAIN registry \ bad) :
              /\ icon_files' = icon_files \cup {registry[u].filename : u \in done}
              /\ requests' = requests +
                     (IF single_thread THEN Cardinality(done) + 1
                                       ELSE Cardinality(DOMAIN registry))
              /\ failures' = failures \cup {"icon download"}
              /\ IF done # {} THEN Wrote({IconsDir}) ELSE UNCHANGED <<written, tainted>>
              /\ Abort
    /\ UNCHANGED <<envVars, auxVars, catalog_file, icons_file, templates_file, compiled_file,
                   templates_newer, style_newer, builds, categories, products, icons,
                   regenerated, cache_hits>>

\* save_resources_xml_to_file and the (xml, true) of generate_icons_xml.
SaveIconsXml ==
    /\ pc = "icons_xml"
    /\ \E w \in FsWriteOutcomes(icons_file, build_resources_xml(register_icons(icons))) :
         /\ icons_file' = w.file
         /\ IF w.ok \/ w.file # icons_file THEN Wrote({IconsXml})
                                           ELSE UNCHANGED <<written, tainted>>
         /\ IF w.ok
            THEN /\ regenerated' = [regenerated EXCEPT !.icons = TRUE]
                 /\ pc' = "templates"
                 /\ emitted' = emitted
                 /\ failures' = failures
            ELSE /\ failures' = failures \cup {"icons.xml write"}
                 /\ regenerated' = regenerated
                 /\ Abort
    /\ UNCHANGED <<envVars, auxVars, catalog_file, icon_files, templates_file, compiled_file,
                   templates_newer, style_newer, builds, categories, products, icons,
                   requests, cache_hits>>

(* -------------------- templates, styles, bundling, metadata ------------- *)

\* templates.xml exists and is newer than data/ui.xml.
should_use_cached_templates == Exists(templates_file) /\ templates_newer

LoadCachedTemplatesXml ==
    /\ pc = "templates"
    /\ should_use_cached_templates
    /\ \E read \in BOOLEAN :
         IF read
         THEN /\ pc' = "styles"
              /\ cache_hits' = cache_hits \cup {TemplatesXml}
              /\ failures' = failures
              /\ emitted' = emitted
         ELSE /\ failures' = failures \cup {"templates.xml read"}
              /\ cache_hits' = cache_hits
              /\ Abort
    /\ UNCHANGED <<envVars, auxVars, fsVars, builds, categories, products, icons, regenerated,
                   requests, written, tainted>>

\* regenerate_template_resources: the *.ui files, then templates.xml, whose
\* modification time becomes the newest whatever the write leaves in it.
RegenerateTemplateResources ==
    /\ pc = "templates"
    /\ ~should_use_cached_templates
    /\ \E w \in FsWriteOutcomes(templates_file, [kind |-> "templates"]) :
         /\ templates_file' = w.file
         /\ templates_newer' = IF w.ok \/ w.file = Partial THEN TRUE ELSE templates_newer
         /\ IF w.ok \/ w.file = Partial THEN Wrote({TemplatesXml})
                                        ELSE UNCHANGED <<written, tainted>>
         /\ IF w.ok
            THEN /\ regenerated' = [regenerated EXCEPT !.templates = TRUE]
                 /\ pc' = "styles"
                 /\ emitted' = emitted
                 /\ failures' = failures
            ELSE /\ failures' = failures \cup {"templates write"}
                 /\ regenerated' = regenerated
                 /\ Abort
    /\ UNCHANGED <<envVars, auxVars, catalog_file, icons_file, icon_files, compiled_file, style_newer,
                   builds, categories, products, icons, requests, cache_hits>>

\* StyleProcessor::check_style_updated: style.css and compiled.gresources exist
\* and style.css is the newer one.
check_style_updated == Exists(compiled_file) /\ style_newer

ProcessStyles ==
    /\ pc = "styles"
    /\ regenerated' = [regenerated EXCEPT !.style = check_style_updated]
    /\ pc' = "compile"
    /\ UNCHANGED <<envVars, auxVars, fsVars, builds, categories, products, icons, requests, emitted,
                   histVars>>

\* A variant that leaves the style check out of the decision.
should_compile_resources_without_style(icons_regenerated, templates_regenerated, style_updated) ==
    icons_regenerated \/ templates_regenerated

should_compile_resources(icons_regenerated, templates_regenerated, style_updated) ==
    icons_regenerated \/ templates_regenerated \/ style_updated

\* BuildPipeline::compile_resources: resources.xml is written and
\* glib-compile-resources run on it; either can fail.
CompileResources ==
    /\ pc = "compile"
    /\ should_compile_resources(regenerated.icons, regenerated.templates, regenerated.style)
    /\ \E compiled \in BOOLEAN :
         IF compiled
         THEN /\ compiled_file' = [kind |-> "gresources"]
              /\ style_newer' = FALSE
              /\ Wrote({CompiledGresources})
              /\ pc' = "emit"
              /\ emitted' = emitted
              /\ failures' = failures
         ELSE /\ failures' = failures \cup {"compile resources"}
              /\ UNCHANGED <<compiled_file, style_newer, written, tainted>>
              /\ Abort
    /\ UNCHANGED <<envVars, auxVars, catalog_file, icons_file, icon_files, templates_file,
                   templates_newer, builds, categories, products, icons, regenerated,
                   requests, cache_hits>>

SkipCompileResources ==
    /\ pc = "compile"
    /\ ~should_compile_resources(regenerated.icons, regenerated.templates, regenerated.style)
    /\ pc' = "emit"
    /\ UNCHANGED <<envVars, auxVars, fsVars, builds, categories, products, icons, regenerated,
                   requests, emitted, histVars>>

\* emit_environment_variables and the Ok(()) of execute_complete_build.
EmitEnvironmentVariables ==
    /\ pc = "emit"
    /\ emitted' = TRUE
    /\ pc' = "done"
    /\ UNCHANGED <<envVars, auxVars, fsVars, builds, categories, products, icons, regenerated,
                   requests, histVars>>

\* Between two builds the developer saves data/ui.xml or data/style.css.
EditUi ==
    /\ pc \in {"done", "failed"}
    /\ templates_newer
    /\ templates_newer' = FALSE
    /\ UNCHANGED <<envVars, auxVars, catalog_file, icons_file, icon_files, templates_file,
                   compiled_file, style_newer, buildVars, histVars>>

EditStyle ==
    /\ pc \in {"done", "failed"}
    /\ Exists(compiled_file)
    /\ ~style_newer
    /\ style_newer' = TRUE
    /\ UNCHANGED <<envVars, auxVars, catalog_file, icons_file, icon_files, templates_file,
                   compiled_file, templates_newer, buildVars, histVars>>

\* Between two builds the developer deletes catalog.rs to have the site scraped
\* again: nothing else makes the catalog stage run once the file exists.
RemoveCatalog ==
    /\ pc \in {"done", "failed"}
    /\ Exists(catalog_file)
    /\ catalog_file' = Absent
    /\ written' = written \ {CatalogRs}
    /\ tainted' = tainted \ {CatalogRs}
    /\ UNCHANGED <<envVars, auxVars, icons_file, icon_files, templates_file, compiled_file,
                   templates_newer, style_newer, buildVars, failures, cache_hits>>

\* Between two builds the developer deletes icons.xml.
RemoveIconsXml ==
    /\ pc \in {"done", "failed"}
    /\ Exists(icons_file)
    /\ icons_file' = Absent
    /\ written' = written \ {IconsXml}
    /\ tainted' = tainted \ {IconsXml}
    /\ UNCHANGED <<envVars, auxVars, catalog_file, icon_files, templates_file, compiled_file,
                   templates_newer, style_newer, buildVars, failures, cache_hits>>

(* ------------------- the catalog stage over every site ------------------ *)

CleanOutputDir ==
    /\ catalog_file = Absent
    /\ icons_file = Absent
    /\ icon_files = {}
    /\ templates_file = Absent
    /\ compiled_file = Absent
    /\ templates_newer = FALSE
    /\ style_newer = FALSE

NoBuild ==
    /\ pc = "idle"
    /\ builds = 0
    /\ categories = <<>>
    /\ products = <<>>
    /\ icons = <<>>
    /\ regenerated = [icons |-> FALSE, templates |-> FALSE, style |-> FALSE]
    /\ requests = 0
    /\ emitted = FALSE
    /\ failures = {}
    /\ cache_hits = {}
    /\ written = {}
    /\ tainted = {}
    /\ NoGui
    /\ catalogs_written = {}
    /\ harvest = HarvestIdle

InitCatalog ==
    /\ site \in Sites
    /\ single_thread = FALSE
    /\ executor = ExecutorIdle
    /\ CleanOutputDir
    /\ NoBuild
    /\ input = NoCall
    /\ output = None

\* The first build on a clean output directory, SINGLE_THREAD_BUILD unset.
StartCatalogBuild == builds = 0 /\ StartBuild /\ ~single_thread'

NextCatalog ==
    \/ StartCatalogBuild
    \/ ExtractAllCategories
    \/ ExtractAllProducts
    \/ WriteCatalog

SpecCatalog == InitCatalog /\ [][NextCatalog]_vars

(* ------------------- repeated builds over one output directory ---------- *)

\* Sites of the repeated-build specification: the cloud category alone or with
\* the search category, one product linked from the cloud page.
PipelineSites ==
    {s \in Sites :
        /\ s.index \in {<< <<"", "category", "cloud">> >>,
                        << <<"", "category", "cloud">>, <<"", "category", "search">> >>}
        /\ s.listing = [c \in Slugs |-> IF c = "cloud" THEN {<<"", "product", "acme">>} ELSE {}]
        /\ s.product[<<"", "product", "acme">>].label \in {Some("Austria"), Some("Belgium")}
        /\ s.product[<<"", "product", "bolt">>].heading = <<"bolt", "search">>}

Init ==
    /\ site \in PipelineSites
    /\ single_thread = FALSE
    /\ executor = ExecutorIdle
    /\ CleanOutputDir
    /\ NoBuild
    /\ input = NoCall
    /\ output = None

Next ==
    \/ StartBuild
    \/ ProcessCatalogCached
    \/ ExtractAllCategories
    \/ ExtractAllProducts
    \/ WriteCatalog
    \/ LoadCachedIconsXml
    \/ DownloadIcons
    \/ SaveIconsXml
    \/ LoadCachedTemplatesXml
    \/ RegenerateTemplateResources
    \/ ProcessStyles
    \/ CompileResources
    \/ SkipCompileResources
    \/ EmitEnvironmentVariables
    \/ EditUi
    \/ EditStyle

Spec == Init /\ [][Next]_vars

(* ------------------- builds with a forced re-scrape between ------------- *)

InitRescrape ==
    /\ site \in PipelineSites
    /\ single_thread = FALSE
    /\ executor = ExecutorIdle
    /\ CleanOutputDir
    /\ NoBuild
    /\ input = NoCall
    /\ output = None

\* The builds of this specification meet no failing fetch, parse, write or
\* compile step; between them the developer may delete either file.
NextRescrape ==
    \/ StartBuild
    \/ ProcessCatalogCached
    \/ ExtractAllCategories /\ failures' = {}
    \/ ExtractAllProducts /\ failures' = {}
    \/ WriteCatalog /\ failures' = {}
    \/ LoadCachedIconsXml /\ failures' = {}
    \/ DownloadIcons /\ failures' = {}
    \/ SaveIconsXml /\ failures' = {}
    \/ LoadCachedTemplatesXml /\ failures' = {}
    \/ RegenerateTemplateResources /\ failures' = {}
    \/ ProcessStyles
    \/ CompileResources /\ failures' = {}
    \/ SkipCompileResources
    \/ EmitEnvironmentVariables
    \/ EditUi
    \/ EditStyle
    \/ RemoveCatalog
    \/ RemoveIconsXml

SpecRescrape == InitRescrape /\ [][NextRescrape]_vars

(* ------------------ the executor, thread by thread ---------------------- *)

\* A call of execute_and_collect or execute_parallel on n items: items collected,
\* results empty, the mode read from the environment.
ExecutorCalls ==
    {[call |-> c, phase |-> "start", n |-> n, task |-> [i \in 1..n |-> "unspawned"],
      next |-> 1, joined |-> {}, results |-> <<>>, ret |-> "none", error_of |-> 0] :
        c \in {"execute_and_collect", "execute_parallel"}, n \in 0..MaxItems}

ExecUnchanged == UNCHANGED <<site, single_thread, fsVars, buildVars, histVars, auxVars>>

\* if Self::is_single_threaded() { ... } else { ... }
ExecBranch ==
    /\ executor.phase = "start"
    /\ executor' = [executor EXCEPT
                       !.phase = IF single_thread THEN "serial"
                                 ELSE IF executor.n = 0 THEN "join" ELSE "spawn"]
    /\ ExecUnchanged

\* A variant whose serial loop notes the error of an item and goes on.
ExecSerialStepContinuing ==
    /\ executor.phase = "serial"
    /\ executor.next <= executor.n
    /\ \E outcome \in {"ok", "err", "panicked"} :
         executor' =
             IF outcome = "ok"
             THEN [executor EXCEPT !.task[executor.next] = "ok",
                                   !.results = Append(@, executor.next),
                                   !.next = @ + 1]
             ELSE IF outcome = "err"
             THEN [executor EXCEPT !.task[executor.next] = "err",
                                   !.error_of = executor.next,
                                   !.next = @ + 1]
             ELSE [executor EXCEPT !.task[executor.next] = outcome,
                                   !.phase = "returned",
                                   !.ret = "panic",
                                   !.error_of = executor.next]
    /\ ExecUnchanged

\* One iteration of the serial loop: worker(item)? and the push of its result.
ExecSerialStep ==
    /\ executor.phase = "serial"
    /\ executor.next <= executor.n
    /\ \E outcome \in {"ok", "err", "panicked"} :
         executor' =
             IF outcome = "ok"
             THEN [executor EXCEPT !.task[executor.next] = "ok",
                                   !.results = Append(@, executor.next),
                                   !.next = @ + 1]
             ELSE [executor EXCEPT !.task[executor.next] = outcome,
                                   !.phase = "returned",
                                   !.ret = IF outcome = "err" THEN "err" ELSE "panic",
                                   !.error_of = executor.next]
    /\ ExecUnchanged

\* One std::thread::spawn of the .map(...).collect::<Vec<_>>() over the items.
ExecSpawn ==
    /\ executor.phase = "spawn"
    /\ executor' = [executor EXCEPT
                       !.task[executor.next] = "running",
                       !.next = IF executor.next = executor.n THEN 1 ELSE @ + 1,
                       !.phase = IF executor.next = executor.n THEN "join" ELSE "spawn"]
    /\ ExecUnchanged

\* A spawned thread finishes its worker: Ok, Err, or a panic.  It may do so
\* after the call has returned; the thread is detached, not stopped.
ExecTaskFinish ==
    /\ \E i \in 1..executor.n, outcome \in {"ok", "err", "panicked"} :
         /\ executor.task[i] = "running"
         /\ executor' = [executor EXCEPT !.task[i] = outcome]
    /\ ExecUnchanged

\* A variant whose join loop steps over a handle whose thread panicked.
ExecJoinSkippingPanics ==
    /\ executor.phase = "join"
    /\ executor.next <= executor.n
    /\ executor.task[executor.next] # "running"
    /\ LET i == executor.next IN
       executor' =
           IF executor.task[i] = "ok"
           THEN [executor EXCEPT
                    !.joined = @ \cup {i},
                    !.results = Append(@, i),
                    !.next = @ + 1]
           ELSE IF executor.task[i] = "panicked"
           THEN [executor EXCEPT !.joined = @ \cup {i}, !.next = @ + 1]
           ELSE [executor EXCEPT
                    !.joined = @ \cup {i},
                    !.phase = "returned",
                    !.ret = "err",
                    !.error_of = i]
    /\ ExecUnchanged

\* One iteration of `for handle in handles`: join() waits for the thread, the
\* `??` returns its panic or its error at once, else its result is pushed.
ExecJoin ==
    /\ executor.phase = "join"
    /\ executor.next <= executor.n
    /\ executor.task[executor.next] # "running"
    /\ LET i == executor.next IN
       executor' =
           IF executor.task[i] = "ok"
           THEN [executor EXCEPT
                    !.joined = @ \cup {i},
                    !.results = Append(@, i),
                    !.next = @ + 1]
           ELSE [executor EXCEPT
                    !.joined = @ \cup {i},
                    !.phase = "returned",
                    !.ret = "err",
                    !.error_of = i]
    /\ ExecUnchanged

\* Ok((results, all_icons)) / Ok(()) after the loop.
ExecReturnOk ==
    /\ executor.phase \in {"serial", "join"}
    /\ executor.next > executor.n
    /\ executor' = [executor EXCEPT !.phase = "returned", !.ret = "ok"]
    /\ ExecUnchanged

InitExec ==
    /\ site \in {s \in PipelineSites : s.index = << <<"", "category", "cloud">> >>
                                        /\ s.product[<<"", "product", "acme">>].label = Some("Austria")}
    /\ single_thread \in BOOLEAN
    /\ executor \in ExecutorCalls
    /\ CleanOutputDir
    /\ NoBuild
    /\ input = NoCall
    /\ output = None

NextExec ==
    \/ ExecBranch
    \/ ExecSerialStep
    \/ ExecSpawn
    \/ ExecTaskFinish
    \/ ExecJoin
    \/ ExecReturnOk

SpecExec == InitExec /\ [][NextExec]_vars

(* ------------------ the icon harvest, task by task ---------------------- *)

\* A product that carries the name of its category, with its own vector logo.
CloudProductPage ==
    [heading |-> <<"Cloud">>, label |-> None, logo |-> Some(<<"cdn/productLogo/c", "svg">>),
     anchors |-> <<>>, other |-> <<>>]

\* Sites of the harvest specification: one category page listing two products
\* that show one logo file, and one listing the product named like it.
IconSites ==
    { [index |-> << <<"", "category", "cloud">> >>,
       listing |-> [c \in Slugs |-> IF c = "cloud" THEN ProductUrls ELSE {}],
       product |-> [u \in ProductUrls |->
                      CHOOSE p \in ProductPages :
                          /\ p.logo = Some(<<"cdn/productLogo/s", "PNG">>)
                          /\ p.heading = IF u = <<"", "product", "acme">>
                                         THEN <<"Acme">> ELSE <<"bolt">>]],
      [index |-> << <<"", "category", "cloud">> >>,
       listing |-> [c \in Slugs |-> IF c = "cloud" THEN {<<"", "product", "acme">>} ELSE {}],
       product |-> [u \in ProductUrls |-> CloudProductPage]] }

\* What the harvest actions leave alone.
HarvestUnchanged ==
    UNCHANGED <<envVars, catalog_file, icons_file, templates_file, compiled_file,
                templates_newer, style_newer, builds, categories, products, icons,
                regenerated, emitted, cache_hits, catalogs_written, input, output, guiVars>>

HarvestRunning == harvest.phase \in {"spawn", "serial", "join"}

\* generate_icons_xml up to the branch of execute_parallel: the registry is
\* built, its values are collected in the HashMap's iteration order.
StartHarvest ==
    /\ pc = "icons"
    /\ should_process_icons(icons)
    /\ LET registry == register_icons(icons) IN
       \E order \in Orderings(DOMAIN registry) :
         harvest' = [phase |-> IF single_thread THEN "serial"
                               ELSE IF order = <<>> THEN "join" ELSE "spawn",
                     items |-> [i \in DOMAIN order |-> registry[order[i]]],
                     task |-> [i \in DOMAIN order |-> "unspawned"],
                     next |-> 1, ret |-> "none"]
    /\ pc' = "harvest"
    /\ UNCHANGED <<icon_files, requests, failures, written, tainted>>
    /\ HarvestUnchanged

\* std::thread::spawn of the task of the next item.
HarvestSpawn ==
    /\ pc = "harvest"
    /\ harvest.phase = "spawn"
    /\ harvest' = [harvest EXCEPT
                      !.task[harvest.next] = "fetching",
                      !.next = IF harvest.next = Len(harvest.items) THEN 1 ELSE @ + 1,
                      !.phase = IF harvest.next = Len(harvest.items) THEN "join" ELSE "spawn"]
    /\ UNCHANGED <<pc, icon_files, requests, failures, written, tainted>>
    /\ HarvestUnchanged

\* worker(item) of the serial loop is entered for the next item.
HarvestSerialCall ==
    /\ pc = "harvest"
    /\ harvest.phase = "serial"
    /\ harvest.next <= Len(harvest.items)
    /\ harvest.task[harvest.next] = "unspawned"
    /\ harvest' = [harvest EXCEPT !.task[harvest.next] = "fetching"]
    /\ UNCHANGED <<pc, icon_files, requests, failures, written, tainted>>
    /\ HarvestUnchanged

\* download_icon_as_svg, HttpClient::fetch_bytes(&icon.url)?
HarvestFetch ==
    /\ pc = "harvest"
    /\ HarvestRunning
    /\ \E i \in DOMAIN harvest.task, fetched \in BOOLEAN :
         /\ harvest.task[i] = "fetching"
         /\ harvest' = [harvest EXCEPT !.task[i] = IF fetched THEN "writing" ELSE "err"]
         /\ failures' = IF fetched THEN failures ELSE failures \cup {"icon download"}
    /\ requests' = requests + 1
    /\ UNCHANGED <<pc, icon_files, written, tainted>>
    /\ HarvestUnchanged

\* normalize_svg_bytes / convert_image_to_png: the bytes are converted and
\* written to directory.join(&icon.filename).  The task is inside this step
\* from the moment it holds the bytes until the write returns; a conversion
\* that fails, or a file that cannot be created, leaves nothing.
HarvestWrite ==
    /\ pc = "harvest"
    /\ HarvestRunning
    /\ \E i \in DOMAIN harvest.task, saved \in BOOLEAN :
         /\ harvest.task[i] = "writing"
         /\ harvest' = [harvest EXCEPT !.task[i] = IF saved THEN "ok" ELSE "err"]
         /\ failures' = IF saved THEN failures ELSE failures \cup {"icon download"}
         /\ IF saved
            THEN /\ icon_files' = icon_files \cup {harvest.items[i].filename}
                 /\ Wrote({IconsDir})
            ELSE UNCHANGED <<icon_files, written, tainted>>
    /\ UNCHANGED <<pc, requests>>
    /\ HarvestUnchanged

\* worker(item)? of the serial loop, handle.join()...?? of the join loop: the
\* result of the next task is taken once the task is over.
HarvestJoin ==
    /\ pc = "harvest"
    /\ harvest.phase \in {"serial", "join"}
    /\ harvest.next <= Len(harvest.items)
    /\ harvest.task[harvest.next] \in {"ok", "err"}
    /\ IF harvest.task[harvest.next] = "ok"
       THEN /\ harvest' = [harvest EXCEPT !.next = @ + 1]
            /\ pc' = pc
       ELSE /\ harvest' = [harvest EXCEPT !.phase = "returned", !.ret = "err"]
            /\ pc' = "failed"
    /\ UNCHANGED <<icon_files, requests, failures, written, tainted>>
    /\ HarvestUnchanged

\* Ok(()) of execute_parallel, Ok(self) of download_all_to_directory.
HarvestReturnOk ==
    /\ pc = "harvest"
    /\ harvest.phase \in {"serial", "join"}
    /\ harvest.next > Len(harvest.items)
    /\ harvest' = [harvest EXCEPT !.phase = "returned", !.ret = "ok"]
    /\ pc' = "icons_xml"
    /\ UNCHANGED <<icon_files, requests, failures, written, tainted>>
    /\ HarvestUnchanged

InitIcons ==
    /\ site \in IconSites
    /\ single_thread = FALSE
    /\ executor = ExecutorIdle
    /\ CleanOutputDir
    /\ NoBuild
    /\ input = NoCall
    /\ output = None

\* The first build on a clean output directory, in either mode.
StartFirstBuild == builds = 0 /\ StartBuild

NextIcons ==
    \/ StartFirstBuild
    \/ ExtractAllCategories
    \/ ExtractAllProducts
    \/ WriteCatalog
    \/ StartHarvest
    \/ HarvestSpawn
    \/ HarvestSerialCall
    \/ HarvestFetch
    \/ HarvestWrite
    \/ HarvestJoin
    \/ HarvestReturnOk
    \/ SaveIconsXml

SpecIcons == InitIcons /\ [][NextIcons]_vars

(* ------------------- single calls of the extraction functions ----------- *)

\* Icon source urls as their '.'-separated parts: svg in three spellings, two
\* raster extensions, an svg url with a query, a url without a '.'.
IconUrls ==
    { <<"cdn/productLogo/a", "svg">>, <<"cdn/productLogo/a", "SVG">>, <<"cdn/productLogo/a", "Svg">>,
      <<"cdn/productLogo/a", "png">>, <<"cdn/productLogo/a", "PNG">>, <<"cdn/productLogo/a", "JPG">>,
      <<"cdn/productLogo/a", "svg?v=2">>, <<"cdn/productLogo/a">>, <<"cdn/productLogo/a", "min", "SVG">> }

\* What the span next to the flag image may hold; None where the page has no flag.
Labels ==
    {None} \cup
    {Some(t) : t \in {"Austria", " Austria ", "austria", "AUSTRIA", "at", "Belgium", "Belgium ",
                       "be", "BE", "Bulgaria", "Atlantis", " "}}

\* The calls under study: extract_websites on a product page with up to
\* MaxAnchors anchors and other links, and send_request on each response.
ExtractCalls ==
    {[fn |-> "extract_websites", page |-> pg, source |-> <<"", "product", "acme">>] :
        pg \in [anchors : SeqsUpTo(Anchors, MaxAnchors),
                other : SeqsUpTo(OtherLinks, MaxAnchors)]}
    \cup {[fn |-> "send_request", response |-> r] : r \in Responses}
    \cup {[fn |-> "from_url", url |-> u, name |-> n] : u \in IconUrls, n \in {<<"Acme">>, <<"bolt", "Search">>}}
    \cup {[fn |-> "extract_product_country", page |-> [label |-> l]] : l \in Labels}

ExtractUnchanged ==
    UNCHANGED <<envVars, fsVars, histVars, pc, builds, categories, products, icons,
                regenerated, emitted, catalogs_written, harvest, input, guiVars>>

CallExtractWebsites ==
    /\ input.fn = "extract_websites"
    /\ output = None
    /\ output' = Some(extract_websites(input.page, input.source))
    /\ UNCHANGED requests
    /\ ExtractUnchanged

\* One call of send_request: one GET, and its result handed to the caller.
CallSendRequest ==
    /\ input.fn = "send_request"
    /\ output = None
    /\ requests' = requests + 1
    /\ output' = Some(send_request(input.response))
    /\ ExtractUnchanged

InitExtract ==
    /\ site \in {s \in PipelineSites : s.index = << <<"", "category", "cloud">> >>
                                        /\ s.product[<<"", "product", "acme">>].label = Some("Austria")}
    /\ single_thread = FALSE
    /\ executor = ExecutorIdle
    /\ CleanOutputDir
    /\ NoBuild
    /\ input \in ExtractCalls
    /\ output = None

\* Icon::from_url on a source url, then the branch download_icon_as_svg takes.
CallFromUrl ==
    /\ input.fn = "from_url"
    /\ output = None
    /\ LET icon == from_url(input.url, input.name)
       IN output' = Some([icon |-> icon, download |-> download_icon_as_svg(icon)])
    /\ UNCHANGED requests
    /\ ExtractUnchanged

CallExtractProductCountry ==
    /\ input.fn = "extract_product_country"
    /\ output = None
    /\ output' = Some(extract_product_country(input.page))
    /\ UNCHANGED requests
    /\ ExtractUnchanged

NextExtract ==
    \/ CallExtractWebsites
    \/ CallSendRequest
    \/ CallFromUrl
    \/ CallExtractProductCountry

SpecExtract == InitExtract /\ [][NextExtract]_vars

(* ------------------------------ OrderedMap ------------------------------ *)

\* HashMap::insert / HashMap::remove on a map held as a function.
HashMapInsert(map, key, value) ==
    [k \in DOMAIN map \cup {key} |-> IF k = key THEN value ELSE map[k]]
HashMapRemove(map, key) == [k \in DOMAIN map \ {key} |-> map[k]]
HashMapGet(map, key) == IF key \in DOMAIN map THEN Some(map[key]) ELSE None

\* A variant that pushes the key whether the map holds it or not.
OrderedMap_insert_always_push(self, key, value) ==
    [self |-> [map |-> HashMapInsert(self.map, key, value),
               indices |-> Append(self.indices, key)],
     ret |-> HashMapGet(self.map, key)]

\* OrderedMap::insert: the new state and the returned previous value.
OrderedMap_insert(self, key, value) ==
    [self |-> [map |-> HashMapInsert(self.map, key, value),
               indices |-> IF key \notin DOMAIN self.map
                           THEN Append(self.indices, key) ELSE self.indices],
     ret |-> HashMapGet(self.map, key)]

\* OrderedMap::remove: indices.retain(|&index| index != key) when the map held the key.
OrderedMap_remove(self, key) ==
    IF key \in DOMAIN self.map
    THEN [self |-> [map |-> HashMapRemove(self.map, key),
                    indices |-> SelectSeq(self.indices, LAMBDA index : index # key)],
          ret |-> Some(self.map[key])]
    ELSE [self |-> self, ret |-> None]

\* OrderedMap::iter: indices.iter().filter_map(|&index| map.get(&index)...)
OrderedMap_iter(self) ==
    LET present == SelectSeq(self.indices, LAMBDA index : index \in DOMAIN self.map)
    IN [i \in DOMAIN present |-> <<present[i], self.map[present[i]]>>]

\* OrderedMap::get_by_index: indices.get(index).and_then(|&key| map.get(&key))
OrderedMap_get_by_index(self, index) ==
    IF index < Len(self.indices) THEN HashMapGet(self.map, At(self.indices, index)) ELSE None

OrderedMap_len(self) == Len(self.indices)

OrderedMap_first(self) ==
    IF self.indices = <<>> \/ Head(self.indices) \notin DOMAIN self.map THEN None
    ELSE Some(<<Head(self.indices), self.map[Head(self.indices)]>>)

OrderedMap_last(self) ==
    IF self.indices = <<>> \/ Last(self.indices) \notin DOMAIN self.map THEN None
    ELSE Some(<<Last(self.indices), self.map[Last(self.indices)]>>)

MapKeys == 0..MaxKey
MapValues == {"a", "b", "c"}

MapUnchanged ==
    UNCHANGED <<envVars, fsVars, buildVars, histVars, catalogs_written, harvest, search_row,
                search, scroll>>

CallInsert ==
    /\ \E key \in MapKeys, value \in MapValues :
         LET call == OrderedMap_insert(ordered_map, key, value)
         IN /\ input' = [fn |-> "insert", key |-> key, value |-> value]
            /\ ordered_map' = call.self
            /\ output' = Some(call.ret)
    /\ MapUnchanged

CallRemove ==
    /\ \E key \in MapKeys :
         LET call == OrderedMap_remove(ordered_map, key)
         IN /\ input' = [fn |-> "remove", key |-> key]
            /\ ordered_map' = call.self
            /\ output' = Some(call.ret)
    /\ MapUnchanged

InitMap ==
    /\ site \in {s \in PipelineSites : s.index = << <<"", "category", "cloud">> >>
                                        /\ s.product[<<"", "product", "acme">>].label = Some("Austria")}
    /\ single_thread = FALSE
    /\ executor = ExecutorIdle
    /\ CleanOutputDir
    /\ NoBuild
    /\ input = NoCall
    /\ output = None

NextMap ==
    \/ CallInsert
    \/ CallRemove

SpecMap == InitMap /\ [][NextMap]_vars

(* --------------------------- SidebarSearchRow --------------------------- *)

SidebarSearchRowState == {"Active", "Inactive", "Idle"}

\* What the user may have typed into the entry.
EntryTexts == {"", "eu", "mail"}

RECURSIVE set_state_always_emitting(_, _)
RECURSIVE set_state(_, _)
RECURSIVE emit_state_changed(_, _)
RECURSIVE row_selected(_, _)

\* A variant that stores and emits also when the state stays what it was.
set_state_always_emitting(self, new_state) ==
    LET current_state == self.state
        is_empty == self.text = ""
        call == [new_state |-> new_state, is_empty |-> is_empty, before |-> current_state]
    IN IF new_state = "Inactive" /\ ~is_empty
       THEN [self |-> [self EXCEPT !.calls = Append(@,
                          call @@ [after |-> self.state, emitted |-> FALSE, ret |-> FALSE])],
             ret |-> FALSE]
       ELSE LET effective_state == IF new_state = "Active" /\ is_empty THEN "Idle" ELSE new_state
                stored == [self EXCEPT !.state = effective_state,
                              !.calls = Append(@,
                                  call @@ [after |-> effective_state, emitted |-> TRUE, ret |-> TRUE])]
            IN [self |-> emit_state_changed(stored, effective_state), ret |-> TRUE]

\* SidebarSearchRow::set_state: the row after the call, with the call noted
\* in calls (after = the stored state when the call returns or emits).
set_state(self, new_state) ==
    LET current_state == self.state
        is_empty == self.text = ""
        call == [new_state |-> new_state, is_empty |-> is_empty, before |-> current_state]
    IN IF new_state = "Inactive" /\ ~is_empty
       THEN [self |-> [self EXCEPT !.calls = Append(@,
                          call @@ [after |-> self.state, emitted |-> FALSE, ret |-> FALSE])],
             ret |-> FALSE]
       ELSE LET effective_state == IF new_state = "Active" /\ is_empty THEN "Idle" ELSE new_state
            IN IF current_state = effective_state
               THEN [self |-> [self EXCEPT !.calls = Append(@,
                                  call @@ [after |-> self.state, emitted |-> FALSE, ret |-> FALSE])],
                     ret |-> FALSE]
               ELSE LET stored == [self EXCEPT !.state = effective_state,
                                      !.calls = Append(@,
                                          call @@ [after |-> effective_state, emitted |-> TRUE,
                                                   ret |-> TRUE])]
                    IN [self |-> emit_state_changed(stored, effective_state), ret |-> TRUE]

\* The handlers of state-changed: setup_state_changes (the css class) and
\* SidebarPrimaryList::setup_search_row (select_row / deactivate_search_row,
\* each emitting row-selected when the selection changes).
emit_state_changed(self, state) ==
    LET styled == [self EXCEPT !.active_css = (state = "Active")]
    IN CASE state = "Active" ->
              IF styled.selected = "search" THEN styled
              ELSE row_selected([styled EXCEPT !.selected = "search"], "search")
         [] state = "Inactive" ->
              IF styled.selected # "search" THEN styled
              ELSE row_selected([styled EXCEPT !.selected = "none"], "none")
         [] OTHER -> styled

\* SidebarPrimaryList::setup_row_selection, the search row's part of it.
row_selected(self, row) ==
    IF row = "search" THEN set_state(self, "Active").self
    ELSE set_state(self, "Inactive").self

\* gtk::SearchEntry::set_text: search-changed follows once the text changed.
set_text(self, text) ==
    [self EXCEPT !.text = text,
                 !.search_changed_pending = @ \/ text # self.text]

\* SidebarSearchRow::clear_search
clear_search(self) == set_state(set_text(self, ""), "Idle")

\* An event begins: the list of calls it makes is empty.
BeginEvent(self) == [self EXCEPT !.calls = <<>>]

SearchRowUnchanged ==
    UNCHANGED <<envVars, fsVars, buildVars, histVars, catalogs_written, harvest, ordered_map,
                search, scroll>>

\* A caller of the public set_state: Search::activate, the click gesture,
\* search-started, or any other holder of the row.
CallSetState ==
    /\ \E new_state \in SidebarSearchRowState :
         LET call == set_state(BeginEvent(search_row), new_state)
         IN /\ input' = [fn |-> "set_state", new_state |-> new_state]
            /\ search_row' = call.self
            /\ output' = Some(call.ret)
    /\ SearchRowUnchanged

CallClearSearch ==
    /\ LET call == clear_search(BeginEvent(search_row))
       IN /\ input' = [fn |-> "clear_search"]
          /\ search_row' = call.self
          /\ output' = Some(call.ret)
    /\ SearchRowUnchanged

\* stop-search (Escape): set_state(Inactive), then clear_search().
StopSearch ==
    /\ LET call == clear_search(set_state(BeginEvent(search_row), "Inactive").self)
       IN /\ input' = [fn |-> "stop_search"]
          /\ search_row' = call.self
          /\ output' = Some(call.ret)
    /\ SearchRowUnchanged

\* The user edits the entry; search-changed is emitted after the entry's delay.
TypeText ==
    /\ \E text \in EntryTexts \ {search_row.text} :
         search_row' = set_text(BeginEvent(search_row), text)
    /\ input' = [fn |-> "type"]
    /\ output' = None
    /\ SearchRowUnchanged

\* search-changed is delivered: set_state(Active).
SearchChanged ==
    /\ search_row.search_changed_pending
    /\ LET call == set_state([BeginEvent(search_row) EXCEPT !.search_changed_pending = FALSE],
                             "Active")
       IN /\ input' = [fn |-> "search_changed"]
          /\ search_row' = call.self
          /\ output' = Some(call.ret)
    /\ SearchRowUnchanged

\* The user selects the country row of the primary list, or the selection is
\* dropped: row-selected with a row that is not the search row.
SelectOtherRow ==
    /\ \E row \in {"country", "none"} \ {search_row.selected} :
         search_row' = row_selected([BeginEvent(search_row) EXCEPT !.selected = row], row)
    /\ input' = [fn |-> "row_selected"]
    /\ output' = None
    /\ SearchRowUnchanged

InitSearchRow ==
    /\ site \in {s \in PipelineSites : s.index = << <<"", "category", "cloud">> >>
                                        /\ s.product[<<"", "product", "acme">>].label = Some("Austria")}
    /\ single_thread = FALSE
    /\ executor = ExecutorIdle
    /\ CleanOutputDir
    /\ NoBuild
    /\ input = NoCall
    /\ output = None

NextSearchRow ==
    \/ CallSetState
    \/ CallClearSearch
    \/ StopSearch
    \/ TypeText
    \/ SearchChanged
    \/ SelectOtherRow

SpecSearchRow == InitSearchRow /\ [][NextSearchRow]_vars

(* ------------------------ SearchEngine and Search ----------------------- *)

MIN_TOKEN_LENGTH == 3

\* str::len: the length in bytes of the UTF-8 encoding ("ö" takes two).
str_len(word) ==
    CASE word = "" -> 0
      [] word = "eu" -> 2
      [] word = "öl" -> 3
      [] word = "xyz" -> 3
      [] word \in {"mail", "bolt", "fast", "acme"} -> 4
      [] word \in {"cloud", "email"} -> 5
      [] word \in {"search", "secure"} -> 6
      [] OTHER -> 7

\* str::contains on the words of the model.
contains(word, part) == part = word \/ (word = "mailbox" /\ part = "mail") \/ part = ""

\* The alphanumeric characters of a lowered word.
alphanumeric(word) ==
    CASE word = "-" -> ""
      [] word = "e-mail" -> "email"
      [] OTHER -> word

\* SearchEngine::normalize_text on a text given as its white-space separated
\* words: lowered, other characters dropped, the words that remain.
normalize_text(text) ==
    SelectSeq([i \in DOMAIN text |-> alphanumeric(to_lowercase(text[i]))], LAMBDA w : w # "")

\* SearchEngine::tokenize
tokenize(text) == SelectSeq(normalize_text(text), LAMBDA word : str_len(word) >= MIN_TOKEN_LENGTH)

\* SearchEngine::build_product_search_text
build_product_search_text(product) ==
    product.name \o product.description
    \o (IF IsSome(product.country) THEN <<At(CountryTable, product.country[1]).display_name>>
        ELSE <<>>)
    \o Flatten([i \in DOMAIN product.categories |->
                   IF product.categories[i] \in GroupIndices
                   THEN At(GuiCatalog.categories, product.categories[i]).name
                        \o At(GuiCatalog.categories, product.categories[i]).description
                   ELSE <<>>])

\* SearchEngine::build_product_tokens
product_tokens ==
    [p \in ProductIndices |-> tokenize(build_product_search_text(At(GuiCatalog.products, p)))]

\* SearchEngine::product_matches_query
product_matches_query(product_index, query_tokens) ==
    \/ query_tokens = <<>>
    \/ \A q \in DOMAIN query_tokens :
          \E t \in DOMAIN product_tokens[product_index] :
              \/ contains(product_tokens[product_index][t], query_tokens[q])
              \/ contains(query_tokens[q], product_tokens[product_index][t])

\* SearchEngine::find_matching_products
find_matching_products(query) ==
    {p \in ProductIndices : product_matches_query(p, tokenize(query))}

\* SearchEngine::categorize_products
categorize_products(matched_products, country_filter) ==
    LET should_include(p) ==
            /\ p \in matched_products
            /\ (country_filter = None \/ country_filter = At(GuiCatalog.products, p).country)
        filed == {p \in ProductIndices :
                     Range(At(GuiCatalog.products, p).categories) \cap GroupIndices # {}}
    IN [by_category |->
            [g \in GroupIndices |->
                [p \in {q \in ProductIndices : g \in Range(At(GuiCatalog.products, q).categories)}
                    |-> should_include(p)]],
        has_any_matches |-> \E p \in filed : should_include(p)]

\* SearchEngine::find_by_category; a query without words is one whose trim is empty.
find_by_category(query, country_filter) ==
    categorize_products(IF query = <<>> THEN ProductIndices ELSE find_matching_products(query),
                        country_filter)

\* Search::update_search_results with update_overview_page, update_category_list
\* and the apply_row_filter of each group.
update_search_results(self) ==
    LET search_results == find_by_category(self.query, self.country)
        results == search_results.by_category
        shown == [g \in GroupIndices |->
                     [r \in RowsOf(g) |-> IF r \in DOMAIN results[g] THEN results[g][r] ELSE FALSE]]
    IN [self EXCEPT
           !.row_visible = shown,
           !.group_visible = [g \in GroupIndices |-> \E r \in RowsOf(g) : shown[g][r]],
           !.sidebar_visible = [g \in GroupIndices |-> \E r \in DOMAIN results[g] : results[g][r]],
           !.has_any_matches = search_results.has_any_matches]

\* Words the user may type, and the queries made of them.
QueryWords == {"Mail", "eu", "öl", "search", "-", "xyz"}
Queries == SeqsUpTo(QueryWords, MaxQueryWords)

SearchUnchanged ==
    UNCHANGED <<envVars, fsVars, buildVars, histVars, catalogs_written, harvest, ordered_map,
                search_row, scroll>>

\* search-changed of the entry as SidebarSearchRow::connect_search_changed
\* hands it on: the callback runs unless the entry was and is empty.
SearchTextChanged ==
    /\ \E query \in Queries \ {search.query} :
         LET has_content == query # <<>>
             typed == [search EXCEPT !.query = query]
         IN search' = IF search.had_content \/ has_content
                      THEN update_search_results([typed EXCEPT !.had_content = has_content])
                      ELSE typed
    /\ input' = [fn |-> "search_changed"]
    /\ output' = Some(search'.has_any_matches)
    /\ SearchUnchanged

\* notify::selected-item of the country dropdown: the items are the countries
\* that have products, and the default item.
CountryItemSelected ==
    /\ \E country \in ({None} \cup {At(GuiCatalog.products, p).country : p \in ProductIndices})
                          \ {search.country} :
         search' = update_search_results([search EXCEPT !.country = country])
    /\ input' = [fn |-> "item_selected"]
    /\ output' = Some(search'.has_any_matches)
    /\ SearchUnchanged

InitSearch ==
    /\ site \in {s \in PipelineSites : s.index = << <<"", "category", "cloud">> >>
                                        /\ s.product[<<"", "product", "acme">>].label = Some("Austria")}
    /\ single_thread = FALSE
    /\ executor = ExecutorIdle
    /\ CleanOutputDir
    /\ NoBuild
    /\ input = NoCall
    /\ output = None

NextSearch ==
    \/ SearchTextChanged
    \/ CountryItemSelected

SpecSearch == InitSearch /\ [][NextSearch]_vars

(* ------------- GroupScroll, OverviewPage, SidebarCategoryList ------------ *)

Positions == 0..MaxPos

\* The groups shown, and where a group lies in the container (one group is
\* one unit high, as is the viewport; hidden groups take no room).
VisibleGroups == {g \in GroupIndices : search.group_visible[g]}
GroupY(g) == Cardinality({h \in VisibleGroups : h < g})
max_scroll_position == IF VisibleGroups = {} THEN 0 ELSE Cardinality(VisibleGroups) - 1

\* One call of the last event, for the record.
Called(self, fn, index, depth, ret) ==
    [self EXCEPT !.calls = Append(@, [fn |-> fn, index |-> index, depth |-> depth, ret |-> ret])]

\* glib::SourceId::remove: the source is destroyed; the id of a source that
\* is no longer attached makes the call panic.
SourceId_remove(self, id) ==
    IF id \in DOMAIN self.sources
    THEN [self EXCEPT !.sources = [i \in DOMAIN self.sources \ {id} |-> self.sources[i]]]
    ELSE [self EXCEPT !.removed_finished = TRUE]

\* The end of a source whose callback returned for the last time.
SourceFinished(self, id) ==
    [self EXCEPT !.sources = [i \in DOMAIN self.sources \ {id} |-> self.sources[i]]]

\* The id glib gives the next source: one that no attached source has and
\* that is not stored anywhere.
StoredIds(self) ==
    {self.debounce_timeout[i].id : i \in DOMAIN self.debounce_timeout}
    \cup Range(self.animation_timeout)
NewSourceId(self) == Min((1..(MaxSources + 4)) \ (DOMAIN self.sources \cup StoredIds(self)))

\* glib::timeout_add_local and timeout_add_local_once
timeout_add_local(self, id, source) ==
    [self EXCEPT !.sources = [i \in DOMAIN self.sources \cup {id} |->
                                 IF i = id THEN source ELSE self.sources[i]]]

GroupScroll_find_first_visible_group_index ==
    IF VisibleGroups = {} THEN None ELSE Some(Min(VisibleGroups))

GroupScroll_find_last_visible_group_index ==
    IF VisibleGroups = {} THEN None
    ELSE Some(CHOOSE g \in VisibleGroups : \A h \in VisibleGroups : h <= g)

\* GroupScroll::is_current_active
is_current_active(self, index) ==
    IsSome(self.active_index) /\ self.active_index[1] \in GroupIndices
    /\ self.active_index[1] = index

\* GroupScroll::find_active_group_by_viewport_intersection; between the ends
\* the viewport meets exactly the visible group that lies at the value.
find_active_group_by_viewport_intersection(self, scrolling_down) ==
    IF self.value <= 0 THEN GroupScroll_find_first_visible_group_index
    ELSE IF self.value >= max_scroll_position THEN GroupScroll_find_last_visible_group_index
    ELSE Some(CHOOSE g \in VisibleGroups : GroupY(g) = self.value)

\* GroupScroll::schedule_debounced_scroll_handler
schedule_debounced_scroll_handler(self) ==
    LET taken == [self EXCEPT !.debounce_timeout = None]
        cancelled == IF IsSome(self.debounce_timeout)
                     THEN SourceId_remove(taken, self.debounce_timeout[1].id)
                     ELSE taken
        id == NewSourceId(cancelled)
    IN [timeout_add_local(cancelled, id, [kind |-> "debounce", start |-> 0, target |-> 0,
                                           active_index |-> None])
           EXCEPT !.debounce_timeout = Some([position |-> cancelled.value, id |-> id]),
                  !.handler_runs = 0]

\* gtk::Adjustment::set_value: value-changed is emitted when the value
\* changes, and its handler schedules the debounced handler.
set_value(self, value) ==
    IF value = self.value THEN self
    ELSE schedule_debounced_scroll_handler([self EXCEPT !.value = value])

RECURSIVE scroll_to_always(_, _, _)
RECURSIVE scroll_to(_, _, _)
RECURSIVE set_active_group_index(_, _, _)
RECURSIVE select_row_by_index(_, _, _)
RECURSIVE animate_scroll_to_position(_, _, _, _)

\* The on_active_changed closure of OverviewPage::setup_scroll_controller
on_active_changed(self, index, depth) == set_active_group_index(self, index, depth)

\* GroupScroll::animate_scroll_to_position
animate_scroll_to_position(self, target_position, active_index, depth) ==
    LET taken == [self EXCEPT !.animation_timeout = None]
        cancelled == IF IsSome(self.animation_timeout)
                     THEN SourceId_remove(taken, self.animation_timeout[1])
                     ELSE taken
        id == NewSourceId(cancelled)
    IN IF target_position = cancelled.value
       THEN IF IsSome(active_index)
            THEN on_active_changed(cancelled, active_index[1], depth)
            ELSE cancelled
       ELSE [timeout_add_local(cancelled, id,
                               [kind |-> "animation", start |-> cancelled.value,
                                target |-> target_position, active_index |-> active_index])
                EXCEPT !.animation_timeout = Some(id)]

\* A variant that does not look at the active group.
scroll_to_always(self, index, depth) ==
    IF depth > MaxDepth THEN [self EXCEPT !.diverged = TRUE]
    ELSE IF index \in VisibleGroups
    THEN Called(animate_scroll_to_position(on_active_changed(self, index, depth),
                                           GroupY(index), Some(index), depth),
                "scroll_to", index, depth, TRUE)
    ELSE Called(self, "scroll_to", index, depth, FALSE)

\* GroupScroll::scroll_to (OverviewPage::scroll_to_group_index)
scroll_to(self, index, depth) ==
    IF depth > MaxDepth THEN [self EXCEPT !.diverged = TRUE]
    ELSE IF ~is_current_active(self, index) /\ index \in VisibleGroups
    THEN Called(animate_scroll_to_position(on_active_changed(self, index, depth),
                                           GroupY(index), Some(index), depth),
                "scroll_to", index, depth, TRUE)
    ELSE Called(self, "scroll_to", index, depth, FALSE)

\* gtk::ListBox::select_row with the row-selected handlers of
\* SidebarCategoryList::connect_row_selected and MainPage::setup_sidebar:
\* the signal is emitted when the selected row changes.
list_box_select_row(self, index, depth) ==
    IF self.selected_row = Some(index) THEN self
    ELSE scroll_to(Called([self EXCEPT !.selected_row = Some(index)],
                          "row_selected", index, depth, TRUE),
                   index, depth)

\* SidebarCategoryList::select_row_by_index
select_row_by_index(self, index, depth) ==
    IF index \in GroupIndices
    THEN list_box_select_row(Called(self, "select_row_by_index", index, depth, TRUE),
                             index, depth)
    ELSE Called(self, "select_row_by_index", index, depth, FALSE)

\* OverviewPage::set_active_group_index with the active-group-changed
\* handler of MainPage::setup_overview.
set_active_group_index(self, index, depth) ==
    IF self.active_index # Some(index) /\ index \in GroupIndices
    THEN select_row_by_index(Called([self EXCEPT !.active_index = Some(index)],
                                    "set_active_group_index", index, depth, TRUE),
                             index, depth + 1)
    ELSE Called(self, "set_active_group_index", index, depth, FALSE)

GroupScroll_scroll_to_top(self) ==
    IF IsSome(GroupScroll_find_first_visible_group_index)
    THEN scroll_to(self, GroupScroll_find_first_visible_group_index[1], 0) ELSE self

GroupScroll_scroll_to_bottom(self) ==
    IF IsSome(GroupScroll_find_last_visible_group_index)
    THEN scroll_to(self, GroupScroll_find_last_visible_group_index[1], 0) ELSE self

\* A variant that leaves the stored id in place on the last frame.
execute_animation_frame_keeping(self, id, done, position) ==
    LET moved == set_value(self, IF done THEN self.sources[id].target ELSE position)
    IN IF done
       THEN SourceFinished(IF IsSome(self.sources[id].active_index)
                           THEN on_active_changed(moved, self.sources[id].active_index[1], 0)
                           ELSE moved, id)
       ELSE moved

\* GroupScroll::execute_animation_frame, run for the source `id`; `done` is
\* progress >= 1.0, `position` the value an earlier frame sets.
execute_animation_frame(self, id, done, position) ==
    LET moved == set_value(self, IF done THEN self.sources[id].target ELSE position)
        cleared == [moved EXCEPT !.animation_timeout = None]
    IN IF done
       THEN SourceFinished(IF IsSome(self.sources[id].active_index)
                           THEN on_active_changed(cleared, self.sources[id].active_index[1], 0)
                           ELSE cleared, id)
       ELSE moved

\* GroupScroll::handle_scroll_change
handle_scroll_change(self) ==
    LET queued_scroll_position == [i \in DOMAIN self.debounce_timeout |->
                                      self.debounce_timeout[i].position]
        current_scroll_position == self.value
        previous_scroll_position == self.previous_scroll_position
        effective_previous_position ==
            IF IsSome(queued_scroll_position)
            THEN IF queued_scroll_position[1] = current_scroll_position
                 THEN previous_scroll_position ELSE queued_scroll_position[1]
            ELSE previous_scroll_position
        taken == [self EXCEPT !.debounce_timeout = None,
                              !.previous_scroll_position = current_scroll_position,
                              !.handler_runs = IF @ < 2 THEN @ + 1 ELSE @]
        scrolling_down == current_scroll_position > effective_previous_position
        found == find_active_group_by_viewport_intersection(taken, scrolling_down)
    IN IF IsSome(found) /\ ~is_current_active(taken, found[1])
       THEN on_active_changed(Called(taken, "handle_scroll_change", found[1], 0, TRUE),
                              found[1], 0)
       ELSE Called(taken, "handle_scroll_change", 0, 0, FALSE)

\* The positions a frame before the last may set: from the start of the
\* animation up to, but not at, its target.
FramePositions(source) ==
    {p \in Positions : \/ source.start <= p /\ p < source.target
                       \/ source.target < p /\ p <= source.start}

ScrollUnchanged ==
    UNCHANGED <<envVars, fsVars, buildVars, histVars, catalogs_written, harvest, ordered_map,
                search_row, search>>

\* What an event makes of the controller, with room left for its sources.
ScrollBecomes(self, fn) ==
    /\ Cardinality(DOMAIN self.sources) <= MaxSources
    /\ scroll' = self
    /\ input' = [fn |-> fn]
    /\ output' = None
    /\ ScrollUnchanged

\* The user selects a row of the category list.
RowClicked ==
    \E index \in {g \in GroupIndices : search.sidebar_visible[g]} :
        ScrollBecomes(list_box_select_row(BeginEvent(scroll), index, 0), "row_selected")

\* The user scrolls: value-changed of the adjustment.
ValueChanged ==
    \E value \in Positions \ {scroll.value} :
        ScrollBecomes(set_value(BeginEvent(scroll), value), "value_changed")

\* scroll-child with Start or End: GroupScroll::handle_scroll_key_event
ScrollKey ==
    LET handled(self) == {GroupScroll_scroll_to_top(self), GroupScroll_scroll_to_bottom(self)}
    IN \E scrolled \in handled(BeginEvent(scroll)) : ScrollBecomes(scrolled, "scroll_child")

\* The debounce source fires: its callback runs once, then the source ends.
DebounceFires ==
    \E id \in {i \in DOMAIN scroll.sources : scroll.sources[i].kind = "debounce"} :
        ScrollBecomes(SourceFinished(handle_scroll_change(BeginEvent(scroll)), id),
                      "handle_scroll_change")

\* An animation source fires a frame.
AnimationFrame ==
    \E id \in {i \in DOMAIN scroll.sources : scroll.sources[i].kind = "animation"} :
        \E done \in BOOLEAN :
            \E position \in (IF done THEN {scroll.sources[id].target}
                              ELSE FramePositions(scroll.sources[id])) :
                ScrollBecomes(execute_animation_frame(BeginEvent(scroll), id, done, position),
                              "execute_animation_frame")

InitScroll ==
    /\ site \in {s \in PipelineSites : s.index = << <<"", "category", "cloud">> >>
                                        /\ s.product[<<"", "product", "acme">>].label = Some("Austria")}
    /\ single_thread = FALSE
    /\ executor = ExecutorIdle
    /\ CleanOutputDir
    /\ NoBuild
    /\ input = NoCall
    /\ output = None

NextScroll ==
    \/ RowClicked
    \/ ValueChanged
    \/ ScrollKey
    \/ DebounceFires
    \/ AnimationFrame
    \/ CountryItemSelected

\* The main loop dispatches a timeout that is due.
SpecScroll == InitScroll /\ [][NextScroll]_vars /\ WF_vars(DebounceFires)


(* ================================ claims ================================ *)

Count(seq, x) == Cardinality({i \in DOMAIN seq : seq[i] = x})

\* What a complete extraction of the site consists of.
AllCategoryUrls == discover_category_urls(site.index)
AllProductUrls ==
    {u \in ProductUrls :
        \E h \in DOMAIN AllCategoryUrls : u \in site.listing[AllCategoryUrls[h]]}
ExtractionComplete ==
    /\ Len(categories) = Cardinality(DOMAIN AllCategoryUrls)
    /\ Len(products) = Cardinality(AllProductUrls)
    /\ Len(icons) = Len(categories) + Len(products) + COUNT

\* The catalog on disk was written whole by the running build.
CatalogWrittenNow == catalog_file.kind = "catalog" /\ CatalogRs \in written

\* C1: fail-fast.  A build in which some fetch, parse, write or convert step
\* failed has aborted and emitted no metadata; metadata is emitted only by a
\* build that ran every stage without a failure; and catalog.rs is written only
\* once every category, product and icon reference of the site was extracted,
\* the written catalog holding all of them.
C1_FailFast ==
    /\ failures # {} => pc = "failed" /\ ~emitted
    /\ emitted => pc = "done" /\ failures = {}
    /\ CatalogRs \in written => ExtractionComplete
    /\ CatalogWrittenNow =>
         /\ Len(catalog_file.categories) = Cardinality(DOMAIN AllCategoryUrls)
         /\ Len(catalog_file.products) = Cardinality(AllProductUrls)

\* C1 witness: a build that wrote the catalog from a complete extraction and
\* then aborted in the icon stage, emitting nothing.
C1_Witness ==
    /\ pc = "failed"
    /\ CatalogWrittenNow
    /\ Len(catalog_file.products) >= 1
    /\ "icon download" \in failures
    /\ ~emitted

\* C2: no build completes successfully after a cache hit on a file that was
\* last written by a build that aborted.
C2_NoCacheHitOnAbortedOutput ==
    pc = "done" => cache_hits \cap tainted = {}

\* C3: in parallel mode the executor returns only when every launched task has
\* been joined and none is still running, also when some task failed.
C3_JoinsEveryTaskBeforeReturning ==
    (executor.call # "none" /\ ~single_thread /\ executor.phase = "returned") =>
        /\ executor.joined = 1..executor.n
        /\ \A i \in 1..executor.n : executor.task[i] # "running"

\* C4: a build that found catalog.rs present issues no network request at all,
\* whether icons.xml exists or not.
C4_CachedCatalogNoRequests ==
    CatalogRs \in cache_hits => requests = 0

\* C4 witness: a build completed on the cached catalog with icons.xml missing
\* at its start (it wrote the manifest itself), without a single request.
C4_Witness ==
    /\ pc = "done"
    /\ CatalogRs \in cache_hits
    /\ IconsXml \in written
    /\ requests = 0

\* C5: in a written catalog the category slugs are pairwise distinct and
\* categories_map sends each category's slug to that category's position.
C5_SlugsUniqueAndIndexed ==
    catalog_file.kind = "catalog" =>
        LET cats == catalog_file.categories IN
        /\ \A i, j \in DOMAIN cats : i # j => cats[i].slug # cats[j].slug
        /\ \A i \in DOMAIN cats :
             /\ cats[i].slug \in DOMAIN catalog_file.categories_map
             /\ catalog_file.categories_map[cats[i].slug] = i - 1

\* C6: in a written catalog the product names are pairwise distinct and
\* products_map sends each product's name to that product's position.
C6_NamesUniqueAndIndexed ==
    catalog_file.kind = "catalog" =>
        LET prods == catalog_file.products IN
        /\ \A i, j \in DOMAIN prods : i # j => prods[i].name # prods[j].name
        /\ \A i \in DOMAIN prods :
             /\ prods[i].name \in DOMAIN catalog_file.products_map
             /\ catalog_file.products_map[prods[i].name] = i - 1

HasDuplicates ==
    \/ \E i, j \in DOMAIN categories : i # j /\ categories[i].slug = categories[j].slug
    \/ \E i, j \in DOMAIN products : i # j /\ products[i].name = products[j].name

\* C7: when the extracted categories hold a duplicate slug or the products a
\* duplicate name, index construction fails: the build aborts and catalog.rs is
\* not written.
C7_DuplicatesAbortTheBuild ==
    [][(pc = "write_catalog" /\ HasDuplicates) =>
           (pc' = "failed" /\ catalog_file' = catalog_file)]_vars

\* C8: for every product P of the written catalog and every slug C that P
\* declares, P's position occurs exactly once in the bucket categories_map
\* addresses for C; and P's position occurs in no bucket of a category whose
\* slug P does not declare.
C8_CategoryBuckets ==
    CatalogWrittenNow =>
        LET map == catalog_file.categories_map
            buckets == catalog_file.category_products
        IN /\ Len(buckets) = Len(categories)
           /\ \A p \in DOMAIN products :
                /\ \A k \in DOMAIN products[p].categories :
                     /\ products[p].categories[k] \in DOMAIN map
                     /\ Count(At(buckets, map[products[p].categories[k]]), p - 1) = 1
                /\ \A i \in DOMAIN categories :
                     categories[i].slug \notin Range(products[p].categories)
                         => Count(buckets[i], p - 1) = 0

\* C8 witness: a written catalog of two categories with a product at position 1
\* that declares both slugs.
C8_Witness ==
    /\ CatalogWrittenNow
    /\ Len(categories) = 2
    /\ Len(products) = 2
    /\ Len(products[2].categories) = 2
    /\ Count(catalog_file.category_products[1], 1) = 1
    /\ Count(catalog_file.category_products[2], 1) = 1

\* C9: every product with country C occurs exactly once in the bucket of C and
\* in no other country bucket; a product without a country occurs in none.
C9_CountryBuckets ==
    CatalogWrittenNow =>
        /\ Len(catalog_file.country_products) = COUNT
        /\ \A p \in DOMAIN products : \A c \in 0..(COUNT - 1) :
             Count(At(catalog_file.country_products, c), p - 1) =
                 IF products[p].country = Some(c) THEN 1 ELSE 0

\* C9 witness: a written catalog with a product of country ordinal 1 in its
\* bucket and a product without a country.
C9_Witness ==
    /\ CatalogWrittenNow
    /\ \E p, q \in DOMAIN products :
         /\ products[p].country = Some(1)
         /\ Count(At(catalog_file.country_products, 1), p - 1) = 1
         /\ products[q].country = None

\* C10: every slug in the categories of an extracted product is the slug of a
\* category of the extracted sequence, so the ordinal lookup of the code
\* generator succeeds for it.
C10_DeclaredSlugsExist ==
    /\ \A p \in DOMAIN products : \A k \in DOMAIN products[p].categories :
         \E i \in DOMAIN categories : categories[i].slug = products[p].categories[k]
    /\ pc = "write_catalog" => catalog_code(categories, products).ok

\* C10 witness: the code generator is about to run on a product that declares
\* two slugs.
C10_Witness ==
    /\ pc = "write_catalog"
    /\ \E p \in DOMAIN products : Len(products[p].categories) = 2

RECURSIVE SumOver(_, _)
SumOver(f, S) ==
    IF S = {} THEN 0
    ELSE LET x == CHOOSE y \in S : TRUE IN f[x] + SumOver(f, S \ {x})

\* The icon source urls the catalog stage of the running build referenced.
ReferencedIconUrls == {icons[i].url : i \in DOMAIN icons}

\* Requests of a catalog stage that ran to its end: the index page, every
\* category page twice (extraction, product links), every product page.
CatalogStageRequests == 1 + 2 * Len(categories) + Len(products)

\* C11: icons are de-duplicated by source url.  However many entities reference
\* a url, the harvest has exactly one task for it; when the harvest has returned
\* the url was fetched once (the build's requests are those of the catalog stage
\* plus one per url), the file of its task is in icons/, there are no more
\* files than urls, and the manifest lists exactly one line per url.
C11_IconsDeduplicatedByUrl ==
    /\ pc = "harvest" =>
          /\ Len(harvest.items) = Cardinality(ReferencedIconUrls)
          /\ \A u \in ReferencedIconUrls :
                Cardinality({i \in DOMAIN harvest.items : harvest.items[i].url = u}) = 1
    /\ (pc \in {"icons_xml", "templates"} /\ harvest.ret = "ok") =>
          /\ requests = CatalogStageRequests + Cardinality(ReferencedIconUrls)
          /\ \A i \in DOMAIN harvest.items : harvest.items[i].filename \in icon_files
          /\ Cardinality(icon_files) <= Cardinality(ReferencedIconUrls)
    /\ (pc = "templates" /\ icons_file.kind = "manifest") =>
          /\ SumOver(icons_file.files, DOMAIN icons_file.files) = Cardinality(ReferencedIconUrls)
          /\ \A i \in DOMAIN harvest.items : harvest.items[i].filename \in DOMAIN icons_file.files

\* C11 witness: the manifest was written by a build in which two entities
\* with different names referenced one icon url.
C11_Witness ==
    /\ pc = "templates"
    /\ icons_file.kind = "manifest"
    /\ \E i, j \in DOMAIN icons :
         /\ icons[i].url = icons[j].url
         /\ icons[i].name # icons[j].name
    /\ Cardinality(ReferencedIconUrls) < Len(icons)

\* C12: no two tasks of an icon-harvesting batch are inside the write of the
\* same output file path at the same time.
C12_NoTwoTasksWriteOnePath ==
    \A i, j \in DOMAIN harvest.task :
        (i # j /\ harvest.task[i] = "writing" /\ harvest.task[j] = "writing")
            => harvest.items[i].filename # harvest.items[j].filename

\* C13: a crashed worker is never swallowed.  In either mode and for both
\* executor functions, a call that returned success has no panicked task; in
\* parallel mode the join of a panicked thread makes the call return an error.
C13_PanicNeverSwallowed ==
    /\ executor.ret = "ok" => \A i \in 1..executor.n : executor.task[i] # "panicked"
    /\ \A i \in executor.joined : executor.task[i] = "panicked" =>
          executor.ret = "err" /\ executor.error_of = i

\* C13 witness: a parallel call returned the error of a thread that panicked,
\* after the join of an earlier thread that succeeded.
C13_Witness ==
    /\ ~single_thread
    /\ executor.phase = "returned"
    /\ executor.ret = "err"
    /\ executor.error_of = 2
    /\ executor.task[2] = "panicked"
    /\ executor.results = <<1>>

\* Two catalogs that agree on the categories, the products, the slug and name
\* maps and the country buckets, and whose category buckets hold the same
\* product positions, in whatever order.
SameExceptBucketOrder(a, b) ==
    /\ a.categories = b.categories
    /\ a.products = b.products
    /\ a.categories_map = b.categories_map
    /\ a.products_map = b.products_map
    /\ a.country_products = b.country_products
    /\ Len(a.category_products) = Len(b.category_products)
    /\ \A i \in DOMAIN a.category_products :
         /\ Len(a.category_products[i]) = Len(b.category_products[i])
         /\ Range(a.category_products[i]) = Range(b.category_products[i])

\* C14: a catalog written by a serial build and a catalog written by a parallel
\* build of the same site are identical except for the order inside the
\* category buckets.
C14_ModesWriteTheSameCatalog ==
    \A a, b \in catalogs_written :
        a.serial # b.serial => SameExceptBucketOrder(a.catalog, b.catalog)

\* The positions of the extracted categories whose page links the product url.
OwningCategories(u) == {i \in DOMAIN categories : u \in site.listing[categories[i].slug]}

\* The product entries extracted from the detail page at the url (the entry
\* records its own url in websites).
EntriesOf(u) ==
    {p \in DOMAIN products : <<DirectorySiteName, u>> \in Range(products[p].websites)}

\* C15: many-to-many discovery.  In a written catalog every product url linked
\* from k category pages has exactly one product entry, the categories of that
\* entry are exactly the slugs of those k categories, each once, and the
\* entry's position is in the bucket of each of those k categories.
C15_ManyToMany ==
    CatalogWrittenNow =>
        \A u \in AllProductUrls :
            /\ Cardinality(EntriesOf(u)) = 1
            /\ \A p \in EntriesOf(u) :
                 /\ Range(products[p].categories) =
                        {categories[i].slug : i \in OwningCategories(u)}
                 /\ Len(products[p].categories) =
                        Cardinality({categories[i].slug : i \in OwningCategories(u)})
                 /\ \A i \in OwningCategories(u) :
                      Count(catalog_file.category_products[i], p - 1) >= 1

\* C16: the icon stage of a build fetches icons and writes the manifest only if
\* the catalog stage of that build handed over icon references or icons.xml
\* does not exist, and in that case it does run; otherwise the stage loads
\* icons.xml, leaves it and the icon files as they are, issues no request and
\* reports that nothing was regenerated.
C16_IconStageGate ==
    [][ /\ (pc = "icons" /\ pc' = "icons_xml") =>
              /\ icons # <<>> \/ ~Exists(icons_file)
              /\ requests' = requests + Cardinality(ReferencedIconUrls)
        /\ (pc = "icons_xml" /\ pc' = "templates") =>
              /\ icons_file'.kind = "manifest"
              /\ IconsXml \in written'
              /\ regenerated'.icons
        /\ (pc = "icons" /\ pc' = "templates") =>
              /\ icons = <<>> /\ Exists(icons_file)
              /\ icons_file' = icons_file
              /\ icon_files' = icon_files
              /\ requests' = requests
              /\ IconsXml \in cache_hits'
              /\ ~regenerated'.icons
        /\ (pc = "icons" /\ pc' # "icons") =>
              (pc' = "templates" <=> (icons = <<>> /\ Exists(icons_file)))
      ]_vars

\* C16 witness: the second build scraped the site again and fetched its icons
\* although the manifest of the first build exists (it is about to be rewritten).
C16_Witness ==
    /\ builds = 2
    /\ pc = "icons_xml"
    /\ icons # <<>>
    /\ icons_file.kind = "manifest"
    /\ IconsXml \notin written

\* A build got past the bundling decision.
PastBundling == pc \in {"emit", "done"}

\* C17 as stated: a build bundles the resources only if its catalog, icon or
\* template stage regenerated its output, and it does bundle whenever one of
\* them did.
C17_BundlingOnlyAfterRegeneration ==
    PastBundling =>
        (CompiledGresources \in written <=>
            (CatalogRs \in written \/ regenerated.icons \/ regenerated.templates))

\* C17 amended: a build bundles the resources exactly if its icon stage or its
\* template stage regenerated its output or its style check found style.css
\* newer than the existing bundle; a build that regenerated the catalog has
\* regenerated the icon manifest, so it bundles.
C17_BundlingGate ==
    PastBundling =>
        /\ CompiledGresources \in written <=>
               (regenerated.icons \/ regenerated.templates \/ regenerated.style)
        /\ CatalogRs \in written => regenerated.icons
        /\ regenerated.icons <=> IconsXml \in written
        /\ regenerated.templates <=> TemplatesXml \in written

\* C17 witness: a build completed that regenerated nothing and bundled because
\* style.css had been edited after the previous bundle.
C17_Witness ==
    /\ pc = "done"
    /\ CompiledGresources \in written
    /\ regenerated = [icons |-> FALSE, templates |-> FALSE, style |-> TRUE]
    /\ written = {CompiledGresources}

\* The text up to and including the first period of a text given as its
\* '.'-separated parts, the whole text when it holds no period.
FirstSentence(text) == IF Len(text) >= 2 THEN <<text[1], "">> ELSE text

\* C18: the summary of every extracted category is the first paragraph of its
\* page cut after the first period where the paragraph holds a period, and the
\* whole paragraph, unchanged, where it holds none.
C18_SummaryIsFirstSentence ==
    CatalogWrittenNow =>
        \A i \in DOMAIN categories :
            \E href \in Range(site.index) :
                /\ extract_slug_from_href(href) = Some(categories[i].slug)
                /\ categories[i].description = CategoryPage(href).prose
                /\ categories[i].summary = FirstSentence(CategoryPage(href).prose)

\* The anchors of a page that are external, not of the directory site, not
\* social and hold a <span>, in document order.
QualifyingLinks(page) ==
    SelectSeq(page.anchors, LAMBDA a : /\ starts_with_http(a.href)
                                       /\ ~is_directory_href(a.href)
                                       /\ ~is_social_href(a.href)
                                       /\ a.span # "none")

\* The titled links of the other-links section as (title, href), in document order.
TitledLinks(page) ==
    LET titled == SelectSeq(page.other, LAMBDA e : IsSome(e.href) /\ IsSome(e.title))
    IN [i \in DOMAIN titled |-> <<titled[i].title[1], titled[i].href[1]>>]

\* C19: the websites of a product page start with ("Company", url of the first
\* qualifying external non-social link) then (directory-site name, detail-page
\* url) when the page has a qualifying link, and with (directory-site name,
\* detail-page url) alone when it has none; the titled other links follow
\* the base entries in document order.
C19_WebsitesShape ==
    (input.fn = "extract_websites" /\ IsSome(output)) =>
        LET qualifying == QualifyingLinks(input.page)
            own == <<DirectorySiteName, input.source>>
            base == IF qualifying # <<>>
                    THEN << <<"Company", Head(qualifying).href>>, own >>
                    ELSE << own >>
        IN output[1] = base \o TitledLinks(input.page)

\* C20: a call of send_request issues one request; it succeeds exactly on a
\* response with a status from 200 to 299, and fails with a NetworkError on a
\* transport failure and on every other status.
C20_FetcherStatus ==
    (input.fn = "send_request" /\ IsSome(output)) =>
        /\ requests = 1
        /\ output[1].ok <=>
              (input.response.sent /\ input.response.status_code \in 200..299)
        /\ ~output[1].ok => output[1].error = "NetworkError"

\* The last '.'-separated part of the url spells "svg" in some letter case.
EndsInSvg(url) == Last(url) \in {"svg", "SVG", "Svg"}

\* C21: an icon whose source url ends in an svg extension in any letter case
\* is classified as vector, gets the file name <name>.svg and goes through
\* normalize_svg_bytes; every other icon gets <name>.png and goes through
\* convert_image_to_png.
C21_SvgInAnyCaseIsVector ==
    (input.fn = "from_url" /\ IsSome(output)) =>
        LET icon == output[1].icon
            download == output[1].download
        IN IF EndsInSvg(input.url)
           THEN /\ is_svg(icon)
                /\ icon.filename = <<icon.name, "svg">>
                /\ download = [path |-> <<icon.name, "svg">>, routine |-> "normalize_svg_bytes"]
           ELSE /\ ~is_svg(icon)
                /\ icon.filename = <<icon.name, "png">>
                /\ download.path = <<icon.name, "png">>
                /\ download.routine \in {"write_png_bytes", "convert_image_to_png"}

\* C21 witness: a url ending in .SVG was classified and sent down the vector path.
C21_Witness ==
    /\ input.fn = "from_url"
    /\ Last(input.url) = "SVG"
    /\ IsSome(output)
    /\ output[1].download.routine = "normalize_svg_bytes"

\* Case and spacing normalization of a label or of a name.
NormalizedLabel(t) == to_lowercase(trim(t))

\* The members of the enumeration a label matches once both are normalized.
MatchingCountries(t) ==
    {c \in 0..(COUNT - 1) :
        \/ NormalizedLabel(At(CountryTable, c).display_name) = NormalizedLabel(t)
        \/ NormalizedLabel(At(CountryTable, c).code) = NormalizedLabel(t)}

\* C22: the country of a product is the member of the enumeration that the
\* label next to the flag matches after case and spacing normalization, and
\* None when the label is absent or matches no member.
C22_CountryNormalized ==
    (input.fn = "extract_product_country" /\ IsSome(output)) =>
        LET label == input.page.label
        IN IF IsSome(label) /\ MatchingCountries(label[1]) # {}
           THEN /\ IsSome(output[1])
                /\ output[1][1] \in MatchingCountries(label[1])
           ELSE output[1] = None

\* The icon names the extracted catalog stores: Category.icon and Product.logo.
CatalogIconNames ==
    {categories[i].icon : i \in DOMAIN categories} \cup {products[p].logo : p \in DOMAIN products}

\* C23: once a build wrote the catalog and its icon stage wrote the manifest,
\* every icon name stored in a category or a product of the catalog has an
\* output file <name>.svg or <name>.png in the icons directory that the
\* manifest lists, also when several entities share one icon url.
C23_CatalogIconsHaveFiles ==
    (pc = "templates" /\ CatalogRs \in written /\ IconsXml \in written
        /\ icons_file.kind = "manifest") =>
        \A n \in CatalogIconNames :
            \E ext \in {"svg", "png"} :
                /\ <<n, ext>> \in icon_files
                /\ <<n, ext>> \in DOMAIN icons_file.files

\* C24: a build that returned success and emitted APP_RESOURCES leaves a
\* compiled archive that exists and was bundled from the current icon and
\* template manifests: it was bundled by this build, or neither manifest was
\* rewritten by an aborted build since the archive was bundled.
C24_ArchiveCurrentOnSuccess ==
    emitted =>
        /\ Exists(compiled_file)
        /\ CompiledGresources \notin written => {IconsXml, TemplatesXml} \cap tainted = {}

\* C25: in serial mode the worker is invoked on the items in input order and
\* on none after the first failing item; a returned error is the error of
\* that item, and a successful call returns the results of all items in
\* input order.
C25_SerialStopsAtFirstFailure ==
    (single_thread /\ executor.phase \in {"serial", "returned"}) =>
        /\ \A i \in 1..executor.n :
              /\ executor.task[i] # "running"
              /\ executor.task[i] # "unspawned" =>
                    \A j \in 1..(i - 1) : executor.task[j] = "ok"
        /\ executor.ret = "err" =>
              /\ executor.task[executor.error_of] = "err"
              /\ executor.results = [j \in 1..(executor.error_of - 1) |-> j]
        /\ executor.ret = "ok" =>
              executor.results = [j \in 1..executor.n |-> j]

\* C25 witness: a serial call over three items returned the error of the
\* second item; the first result was pushed, the third item never invoked.
C25_Witness ==
    /\ single_thread
    /\ executor.phase = "returned"
    /\ executor.n = 3
    /\ executor.ret = "err"
    /\ executor.error_of = 2
    /\ executor.results = <<1>>
    /\ executor.task[3] = "unspawned"

\* indices holds exactly the keys of map, each once; len, iter, first, last
\* and get_by_index yield every entry once, in the order of indices.
OrderedMapConsistent(self) ==
    /\ Range(self.indices) = DOMAIN self.map
    /\ \A i, j \in DOMAIN self.indices : self.indices[i] = self.indices[j] => i = j
    /\ OrderedMap_len(self) = Cardinality(DOMAIN self.map)
    /\ OrderedMap_iter(self) =
           [i \in DOMAIN self.indices |-> <<self.indices[i], self.map[self.indices[i]]>>]
    /\ \A index \in 0..(MaxKey + 2) :
           OrderedMap_get_by_index(self, index) =
               IF index < Cardinality(DOMAIN self.map)
               THEN Some(self.map[At(self.indices, index)]) ELSE None
    /\ IF DOMAIN self.map = {}
       THEN OrderedMap_first(self) = None /\ OrderedMap_last(self) = None
       ELSE /\ OrderedMap_first(self) = Some(OrderedMap_iter(self)[1])
            /\ OrderedMap_last(self) = Some(OrderedMap_iter(self)[Len(self.indices)])

\* One call keeps the order of first insertion: a new key goes to the end, an
\* existing key keeps its position and takes the new value, a removed key
\* leaves both the map and the order, and the other keys stay as they were.
OrderedMapStep ==
    /\ input'.fn = "insert" =>
          /\ ordered_map'.map[input'.key] = input'.value
          /\ ordered_map'.indices =
                 IF input'.key \in DOMAIN ordered_map.map
                 THEN ordered_map.indices
                 ELSE ordered_map.indices \o <<input'.key>>
          /\ \A k \in DOMAIN ordered_map.map \ {input'.key} :
                 k \in DOMAIN ordered_map'.map /\ ordered_map'.map[k] = ordered_map.map[k]
    /\ input'.fn = "remove" =>
          /\ input'.key \notin DOMAIN ordered_map'.map
          /\ ordered_map'.indices =
                 SelectSeq(ordered_map.indices, LAMBDA k : k # input'.key)
          /\ \A k \in DOMAIN ordered_map.map \ {input'.key} :
                 k \in DOMAIN ordered_map'.map /\ ordered_map'.map[k] = ordered_map.map[k]
    /\ OrderedMapConsistent(ordered_map')

\* C26: after any sequence of insert and remove calls indices holds exactly
\* the keys of map, each once, in order of first insertion; len, iter, first,
\* last and get_by_index neither miss nor repeat an entry.
C26_OrderedMapInvariant == [][OrderedMapStep]_vars

\* C26 witness: three entries are held in an order that is not the key order,
\* after a call that replaced the value of a key the map already held.
C26_Witness ==
    /\ input.fn = "insert"
    /\ IsSome(output) /\ IsSome(output[1])
    /\ ordered_map.indices = <<2, 0, 1>>
    /\ input.key = 2

\* C27: in every set_state call of every event, a request for Inactive on a
\* non-empty entry returns false and leaves the state; Active is never stored
\* on an empty entry (Idle is stored in its place); state-changed is emitted
\* exactly when the stored state changed, and the call returns true exactly
\* then.
C27_SearchRowStateMachine ==
    \A i \in DOMAIN search_row.calls :
        LET call == search_row.calls[i]
            changed == call.after # call.before
        IN /\ (call.new_state = "Inactive" /\ ~call.is_empty) => (~call.ret /\ ~changed)
           /\ (call.new_state = "Active" /\ call.is_empty) => call.after \in {call.before, "Idle"}
           /\ (changed /\ call.after = "Active") => ~call.is_empty
           /\ (changed /\ call.after = "Inactive") => call.is_empty
           /\ call.emitted <=> changed
           /\ call.ret <=> changed

\* C27 witness: with text in the entry, a request for Inactive was turned
\* down while the row stayed Active.
C27_Witness ==
    /\ input.fn = "set_state"
    /\ input.new_state = "Inactive"
    /\ search_row.text # ""
    /\ search_row.state = "Active"
    /\ output = Some(FALSE)
    /\ Len(search_row.calls) = 1

\* The number of characters of a word.
CharCount(word) ==
    CASE word = "" -> 0
      [] word \in {"eu", "öl"} -> 2
      [] word = "xyz" -> 3
      [] OTHER -> str_len(word)

\* The product matches every token of the query that has at least 3 characters.
MatchesLongTokens(p, query) ==
    \A q \in DOMAIN normalize_text(query) :
        CharCount(normalize_text(query)[q]) >= 3 =>
            \E t \in DOMAIN product_tokens[p] :
                \/ contains(product_tokens[p][t], normalize_text(query)[q])
                \/ contains(normalize_text(query)[q], product_tokens[p][t])

\* C28: after every search-text or country-selection change a row of a group
\* is visible iff its product matches every query token of at least 3
\* characters and, with a country selected, is of that country; a group and
\* its sidebar row are visible iff a row of the group is; has_any_matches is
\* true iff some row is visible.
C28_RowVisibility ==
    input.fn \in {"search_changed", "item_selected"} =>
        /\ \A g \in GroupIndices :
              /\ \A r \in RowsOf(g) :
                    search.row_visible[g][r] <=>
                        /\ MatchesLongTokens(r, search.query)
                        /\ (search.country = None
                               \/ At(GuiCatalog.products, r).country = search.country)
              /\ search.group_visible[g] <=> \E r \in RowsOf(g) : search.row_visible[g][r]
              /\ search.sidebar_visible[g] <=> \E r \in RowsOf(g) : search.row_visible[g][r]
        /\ search.has_any_matches <=>
              \E g \in GroupIndices : \E r \in RowsOf(g) : search.row_visible[g][r]

\* The attached sources of a kind.
Attached(kind) == {i \in DOMAIN scroll.sources : scroll.sources[i].kind = kind}

\* At most one debounce and one animation source, stored ids name attached
\* sources of their kind, remove() never met a finished source, and the
\* debounced handler ran at most once since the last change, with no
\* debounce timeout left behind it.
TimersConsistent ==
    /\ Cardinality(Attached("debounce")) <= 1
    /\ Cardinality(Attached("animation")) <= 1
    /\ \A i \in DOMAIN scroll.debounce_timeout :
          scroll.debounce_timeout[i].id \in Attached("debounce")
    /\ Range(scroll.animation_timeout) \subseteq Attached("animation")
    /\ ~scroll.removed_finished
    /\ scroll.handler_runs <= 1
    /\ scroll.handler_runs = 1 => Attached("debounce") = {}
    /\ Attached("debounce") # {} => IsSome(scroll.debounce_timeout)

\* C29: in every reachable state there is at most one pending debounce
\* timeout and at most one running animation timeout, a stored timeout id
\* refers to a source that has not fired its last callback, and after scroll
\* changes the debounced handler runs exactly once, after the last change.
C29_ScrollTimers ==
    /\ []TimersConsistent
    /\ (IsSome(scroll.debounce_timeout)
          ~> (scroll.handler_runs = 1 /\ scroll.debounce_timeout = None))

C29_Witness ==
    /\ input.fn = "value_changed"
    /\ IsSome(scroll.debounce_timeout)
    /\ IsSome(scroll.animation_timeout)
    /\ scroll.debounce_timeout[1].position # scroll.previous_scroll_position

\* C30: every selection or scroll event causes finitely many callbacks: a
\* scroll_to entered from an emission of active-group-changed is for the
\* index just made active, returns false and emits nothing, no emission is
\* nested in another, and active_index is the index of an existing group.
C30_NotificationTerminates ==
    /\ ~scroll.diverged
    /\ \A i \in DOMAIN scroll.calls :
          /\ scroll.calls[i].depth <= 1
          /\ scroll.calls[i].depth > 0 =>
                /\ scroll.calls[i].fn # "set_active_group_index"
                /\ scroll.calls[i].fn = "scroll_to" =>
                      /\ ~scroll.calls[i].ret
                      /\ scroll.active_index = Some(scroll.calls[i].index)
          /\ (scroll.calls[i].fn = "set_active_group_index" /\ scroll.calls[i].ret) =>
                scroll.calls[i].index \in GroupIndices
    /\ Range(scroll.active_index) \subseteq GroupIndices

C30_Witness ==
    /\ input.fn = "handle_scroll_change"
    /\ \E i \in DOMAIN scroll.calls :
          /\ scroll.calls[i].fn = "scroll_to"
          /\ scroll.calls[i].depth = 1
          /\ ~scroll.calls[i].ret
    /\ scroll.active_index = scroll.selected_row
    /\ scroll.active_index # Some(0)

====
